---- MODULE Spec2Model ----
(***************************************************************************)
(* A model of the identifier-normalisation and score-lookup subsystem of   *)
(* uvt-scholarly: ISSN validation, the UEFISCDI spreadsheet parsers, the   *)
(* sqlite score store and the enrichment joins.                            *)
(*                                                                         *)
(* Text is modelled as a sequence of one-character strings, so that the    *)
(* parsing code (strip, upper, split, isdigit, int) is modelled by what it *)
(* does.  Scores are integers (a fixed-point reading of the floats).       *)
(***************************************************************************)
EXTENDS Integers, Sequences, FiniteSets, Bags, TLC

VARIABLES
    issn,       \* ISSN spec: the ISSN value under test, <<part0, part1>>
    valid,      \* ISSN spec: result of ISSN.is_valid ("unset" before the call)
    metric,     \* parser spec: which parser ran ("none", "RIS", "RIF", "AIS")
    version,    \* parser spec: the year edition passed to parse_*
    sheet,      \* parser spec: rows of the active worksheet after the header
    parsed,     \* parser spec: outcome of parse_* ([status, records])
    conn,       \* store spec: per metric, is a connection open
    disk,       \* store spec: per metric, committed rows of the table
    txn,        \* store spec: per metric, rows as seen by the open connection
    query,      \* store spec: the last query and its outcome
    indexed,    \* store spec: per metric, does the file hold the secondary index
    pubs,       \* enrich spec: the candidate publications
    cites,      \* enrich spec: the citing publications
    kinds,      \* enrich spec: the `scores` argument of add_scores, in iteration order
    swindow,    \* enrich spec: the `past` argument of add_scores
    enriched,   \* enrich spec: the last enrichment call and its outcome
    input,      \* identifier spec: the strings handed to a from_string function
    ident,      \* identifier spec: the last call on `input` and its outcome
    cache,      \* download spec: the file at the destination path
    fetched,    \* download spec: the last call of download_file and its outcome
    command     \* command spec: the position, database file and exit status of `download`

issnVars == <<issn, valid>>
parseVars == <<metric, version, sheet, parsed>>
storeVars == <<conn, disk, txn, query, indexed>>
enrichVars == <<pubs, cites, kinds, swindow, enriched>>
identVars == <<input, ident>>
loadVars == <<cache, fetched>>
vars == <<issn, valid, metric, version, sheet, parsed, conn, disk, txn, query,
          indexed, pubs, cites, kinds, swindow, enriched, input, ident, cache, fetched,
          command>>

-----------------------------------------------------------------------------
(* Characters and text                                                     *)

Digits == {"0", "1", "2", "3", "4", "5", "6", "7", "8", "9"}

DigitSeq == <<"0", "1", "2", "3", "4", "5", "6", "7", "8", "9">>

\* str.isdigit on one (ASCII) character
IsDigit(c) == c \in Digits

\* int(ch) for a digit character
DigitVal(c) == (CHOOSE i \in 1..10 : DigitSeq[i] = c) - 1

\* str(n) for 0 <= n <= 9
DigitChar(n) == DigitSeq[n + 1]

LowerLetters == <<"a", "b", "c", "d", "e", "f", "g", "h", "i", "j", "k", "l", "m",
                  "n", "o", "p", "q", "r", "s", "t", "u", "v", "w", "x", "y", "z">>

UpperLetters == <<"A", "B", "C", "D", "E", "F", "G", "H", "I", "J", "K", "L", "M",
                  "N", "O", "P", "Q", "R", "S", "T", "U", "V", "W", "X", "Y", "Z">>

\* str.upper on one (ASCII) character
UpperChar(c) ==
    IF \E i \in 1..26 : LowerLetters[i] = c
    THEN UpperLetters[CHOOSE i \in 1..26 : LowerLetters[i] = c]
    ELSE c

\* str.upper
Upper(s) == [i \in 1..Len(s) |-> UpperChar(s[i])]

IsSpace(c) == c = " "

RECURSIVE LStrip(_)
LStrip(s) == IF s # <<>> /\ IsSpace(Head(s)) THEN LStrip(Tail(s)) ELSE s

RECURSIVE RStrip(_)
RStrip(s) ==
    IF s # <<>> /\ IsSpace(s[Len(s)]) THEN RStrip(SubSeq(s, 1, Len(s) - 1)) ELSE s

\* str.strip
Strip(s) == RStrip(LStrip(s))

\* `c in s`
Contains(s, c) == \E i \in 1..Len(s) : s[i] = c

\* index of the first occurrence of c in s (s contains c)
IndexOf(s, c) == CHOOSE i \in 1..Len(s) : s[i] = c /\ \A j \in 1..(i - 1) : s[j] # c

-----------------------------------------------------------------------------
(* publication.ISSN                                                        *)

\* the value of a failed call: the exception type that was raised
Raise(exc) == [ok |-> FALSE, exc |-> exc]

Return(v) == [ok |-> TRUE, value |-> v]

\* ISSN.__str__ without the dash between the parts
ISSN_str_nodash(i) == i[1] \o i[2]

\* ISSN.__str__
ISSN_str(i) == i[1] \o <<"-">> \o i[2]

\* a slip in ISSN.from_string: the sizes of the two parts are not checked
ISSN_from_string_nosize(text) ==
    IF ~Contains(text, "-") THEN Raise("ValueError")
    ELSE IF Len(text) # 9 THEN Raise("ValueError")
    ELSE LET k == IndexOf(text, "-")
         IN  Return(<<SubSeq(text, 1, k - 1), SubSeq(text, k + 1, Len(text))>>)

\* ISSN.from_string
ISSN_from_string(text) ==
    IF ~Contains(text, "-") THEN Raise("ValueError")
    ELSE IF Len(text) # 9 THEN Raise("ValueError")
    ELSE LET k == IndexOf(text, "-")
             part0 == SubSeq(text, 1, k - 1)
             part1 == SubSeq(text, k + 1, Len(text))
         IN  IF Len(part0) # 4 \/ Len(part1) # 4 THEN Raise("ValueError")
             ELSE Return(<<part0, part1>>)

\* the loop of ISSN.is_valid: -1 stands for the early `return False`
RECURSIVE ISSN_total(_, _, _)
ISSN_total(s, i, total) ==
    IF i = 7 THEN total
    ELSE IF ~IsDigit(s[i + 1]) THEN -1
    ELSE ISSN_total(s, i + 1, total + DigitVal(s[i + 1]) * (8 - i))

\* a slip in the check character: the case check = 11 is not mapped to "0"
ISSN_is_valid_no11(i) ==
    LET s == i[1] \o i[2]
    IN  IF Len(s) # 8 THEN FALSE
        ELSE LET total == ISSN_total(s, 0, 0)
                 check == 11 - (total % 11)
                 expected == IF check = 10 THEN "X"
                             ELSE IF check = 11 THEN "?" ELSE DigitChar(check)
             IN  total # -1 /\ s[8] = expected

\* ISSN.is_valid
ISSN_is_valid(i) ==
    LET s == i[1] \o i[2]
    IN  IF Len(s) # 8 THEN FALSE
        ELSE LET total == ISSN_total(s, 0, 0)
                 check == 11 - (total % 11)
                 expected == IF check = 11 THEN "0"
                             ELSE IF check = 10 THEN "X" ELSE DigitChar(check)
             IN  total # -1 /\ s[8] = expected

-----------------------------------------------------------------------------
(* Text literals used by the code and by the modelled worksheets           *)

T_NA == <<"N", "/", "A">>
T_na == <<"n", "/", "a">>
T_0 == <<"0">>
T_STARS == <<"*", "*", "*", "*", "-", "*", "*", "*", "*">>
T_None == <<"N", "o", "n", "e">>
T_1234_5679 == <<"1", "2", "3", "4", "-", "5", "6", "7", "9">>
T_1234_5678 == <<"1", "2", "3", "4", "-", "5", "6", "7", "8">>
T_12345678 == <<"1", "2", "3", "4", "5", "6", "7", "8">>
T_0006_808X == <<"0", "0", "0", "6", "-", "8", "0", "8", "X">>
T_0006_808x == <<"0", "0", "0", "6", "-", "8", "0", "8", "x">>
T_2254_8854 == <<"2", "2", "5", "4", "-", "8", "8", "5", "4">>
T_2224_8854 == <<"2", "2", "2", "4", "-", "8", "8", "5", "4">>
T_0378_5955 == <<"0", "3", "7", "8", "-", "5", "9", "5", "5">>
T_A == <<"A">>
T_B == <<"B">>
T_C == <<"C">>
T_1 == <<"1">>
T_2 == <<"2">>
T_3 == <<"3">>
T_m1 == <<"-", "1">>
T_x == <<"x">>
T_AHCI == <<"A", "H", "C", "I">>
T_ESCI == <<"E", "S", "C", "I">>
T_SCIE == <<"S", "C", "I", "E">>
T_SSCI == <<"S", "S", "C", "I">>
T_SCIENCE == <<"S", "C", "I", "E", "N", "C", "E">>
T_SOCIAL_SCIENCES == <<"S", "O", "C", "I", "A", "L", " ", "S", "C", "I", "E", "N", "C", "E", "S">>
T_MATH == <<"M", "A", "T", "H">>
T_PHYS == <<"P", "H", "Y", "S">>
T_ZZZZ == <<"Z", "Z", "Z", "Z">>
T_AHCI_SSCI == <<"A", "H", "C", "I", ",", " ", "S", "S", "C", "I">>
T_MATH_SCIE == <<"M", "A", "T", "H", " ", "-", " ", "S", "C", "I", "E">>
T_PHYS_SCIE == <<"P", "H", "Y", "S", " ", "-", " ", "S", "C", "I", "E">>
T_MATH_SSCI == <<"M", "A", "T", "H", " ", "-", " ", "S", "S", "C", "I">>
T_MATH_ZZZZ == <<"M", "A", "T", "H", " ", "-", " ", "Z", "Z", "Z", "Z">>

\* Python's None (an ISSN is a pair of texts, an optional text is <<t>>)
None == <<>>

-----------------------------------------------------------------------------
(* uefiscdi.common: to_float, normalize_issn, is_valid_issn                *)

EMPTY_SCORE == {<<>>, T_NA}

RECURSIVE DecimalValue(_, _)
DecimalValue(s, acc) ==
    IF s = <<>> THEN acc ELSE DecimalValue(Tail(s), 10 * acc + DigitVal(Head(s)))

AllDigits(s) == s # <<>> /\ \A i \in 1..Len(s) : IsDigit(s[i])

\* float(value), on the numerals of the model: an optional sign and digits
Float(s) ==
    IF AllDigits(s) THEN Return(DecimalValue(s, 0))
    ELSE IF s # <<>> /\ Head(s) = "-" /\ AllDigits(Tail(s))
         THEN Return(0 - DecimalValue(Tail(s), 0))
    ELSE Raise("ValueError")

to_float(text) ==
    LET value == Upper(Strip(text))
    IN  IF value \in EMPTY_SCORE THEN Return(0) ELSE Float(value)

EMPTY_ISSN == {T_0, T_NA, T_STARS}

\* normalize_issn without the upper-casing of the text
normalize_issn_asis(text) ==
    LET s == Strip(text)
    IN  IF s \in EMPTY_ISSN THEN Return(None) ELSE ISSN_from_string(s)

\* normalize_issn (common.py)
normalize_issn(text) ==
    LET s == Upper(Strip(text))
    IN  IF s \in EMPTY_ISSN THEN Return(None) ELSE ISSN_from_string(s)

\* is_valid_issn on a text, without the check character
is_valid_issn_str_format(text) == ISSN_from_string(text).ok

\* is_valid_issn on a text
is_valid_issn_str(text) ==
    LET r == ISSN_from_string(text)
    IN  IF r.ok THEN ISSN_is_valid(r.value) ELSE FALSE

\* is_valid_issn on an ISSN value
is_valid_issn(i) == ISSN_is_valid(i)

\* dict.get(key, key) on a correction table (a set of <<wrong, right>> pairs)
GetOrSelf(table, key) ==
    IF \E p \in table : p[1] = key
    THEN (CHOOSE p \in table : p[1] = key)[2]
    ELSE key

RIS_INCORRECT_ISSN == {
    <<<<"2", "1", "5", "0", "-", "0", "1", "3", "6">>,
      <<"2", "1", "5", "0", "-", "1", "3", "6", "X">>>>,
    <<<<"7", "5", "8", "-", "7", "4", "6", "8">>,
      <<"1", "7", "5", "8", "-", "7", "4", "6", "8">>>>,
    <<<<"1", "8", "7", "3", "-", "5", "2", "9", "4">>,
      <<"1", "8", "7", "3", "-", "4", "2", "9", "4">>>>,
    <<<<"2", "0", "1", "6", "-", "8", "2", "6", "1">>,
      <<"2", "0", "4", "6", "-", "8", "2", "6", "1">>>>,
    <<<<"2", "0", "6", "2", "-", "2", "9", "1", "6">>,
      <<"2", "0", "5", "2", "-", "2", "9", "1", "6">>>>,
    <<<<"2", "0", "4", "1", "-", "1", "9", "7", "5">>,
      <<"2", "0", "4", "1", "-", "2", "9", "7", "5">>>>,
    <<<<"0", "0", "3", "0", "-", "2", "1", "1", "X">>,
      <<"0", "3", "0", "0", "-", "2", "1", "1", "X">>>>,
    <<<<"2", "3", "3", "2", "-", "6", "5", "0", "5">>,
      <<"2", "3", "3", "2", "-", "6", "5", "0", "6">>>>,
    <<<<"2", "2", "5", "4", "-", "8", "8", "5", "4">>,
      <<"2", "2", "2", "4", "-", "8", "8", "5", "4">>>>,
    <<<<"1", "9", "2", "9", "-", "7", "2", "9", "1">>,
      <<"1", "9", "3", "9", "-", "7", "2", "9", "1">>>>
}

RIF_INCORRECT_ISSN == RIS_INCORRECT_ISSN

AIS_INCORRECT_ISSN == RIS_INCORRECT_ISSN

AIS_EDITION_NAMES == {<<T_SCIENCE, T_SCIE>>, <<T_SOCIAL_SCIENCES, T_SSCI>>}

\* the members of the Edition enumeration, by name
Edition == {T_AHCI, T_ESCI, T_SCIE, T_SSCI}

UEFISCDI_DATABASE_URL == {2020, 2021, 2022, 2023, 2024, 2025}

Max(S) == CHOOSE x \in S : \A y \in S : y <= x

UEFISCDI_LATEST_YEAR == Max(UEFISCDI_DATABASE_URL)

-----------------------------------------------------------------------------
(* Worksheet rows: a row is a tuple of cells; a cell is an EmptyCell (the   *)
(* padding of openpyxl's read-only mode) or carries a value whose str() is *)
(* `text`.                                                                 *)

Cell(text) == [empty |-> FALSE, text |-> text]

EmptyCell == [empty |-> TRUE, text |-> T_None]

\* isinstance(row[-1], EmptyCell)
LastIsEmpty(row) == row[Len(row)].empty

\* str(row[k].value).strip(), with Python's 0-based column k
CellText(row, k) == Strip(row[k + 1].text)

-----------------------------------------------------------------------------
(* Score records and their validity                                        *)

\* RelativeInfluenceScore.from_strings
RelativeInfluenceScore_from_strings(journal, issn_text, eissn_text, score_text) ==
    LET i == Upper(Strip(issn_text))
        e == Upper(Strip(eissn_text))
        ri == normalize_issn(GetOrSelf(RIS_INCORRECT_ISSN, i))
        re == normalize_issn(GetOrSelf(RIS_INCORRECT_ISSN, e))
        rs == to_float(score_text)
    IN  IF ~ri.ok \/ ~re.ok \/ ~rs.ok THEN Raise("ValueError")
        ELSE Return([journal |-> Strip(journal), issn |-> ri.value,
                     eissn |-> re.value, score |-> rs.value])

\* RelativeImpactFactor.from_strings
RelativeImpactFactor_from_strings(journal, issn_text, eissn_text, score_text) ==
    LET i == Upper(Strip(issn_text))
        e == Upper(Strip(eissn_text))
        ri == normalize_issn(GetOrSelf(RIF_INCORRECT_ISSN, i))
        re == normalize_issn(GetOrSelf(RIF_INCORRECT_ISSN, e))
        rs == to_float(score_text)
    IN  IF ~ri.ok \/ ~re.ok \/ ~rs.ok THEN Raise("ValueError")
        ELSE Return([journal |-> Strip(journal), issn |-> ri.value,
                     eissn |-> re.value, score |-> rs.value])

\* text.split(sep, maxsplit=1)[0]
SplitHead(s, sep) == IF Contains(s, sep) THEN SubSeq(s, 1, IndexOf(s, sep) - 1) ELSE s

\* text.split(sep, maxsplit=1)[1] (s contains sep)
SplitRest(s, sep) == SubSeq(s, IndexOf(s, sep) + 1, Len(s))

\* index of the last occurrence of c in s (s contains c)
LastIndexOf(s, c) ==
    CHOOSE i \in 1..Len(s) : s[i] = c /\ \A j \in (i + 1)..Len(s) : s[j] # c

\* wos.parse_wos_categories(text)[0]
parse_wos_categories_first(text) ==
    LET cat == Strip(SplitHead(text, ";"))
    IN  IF Contains(cat, ",")
        THEN [name |-> Strip(SplitHead(cat, ",")), field |-> <<Strip(SplitRest(cat, ","))>>]
        ELSE [name |-> Strip(cat), field |-> None]

\* ArticleInfluenceScore.from_strings
ArticleInfluenceScore_from_strings(journal, issn_text, eissn_text, category, edition, score_text) ==
    LET i == Upper(Strip(issn_text))
        e == Upper(Strip(eissn_text))
        ed == Upper(Strip(IF Contains(edition, ",") THEN SplitHead(edition, ",")
                          ELSE edition))
        ri == normalize_issn(GetOrSelf(AIS_INCORRECT_ISSN, i))
        re == normalize_issn(GetOrSelf(AIS_INCORRECT_ISSN, e))
        rs == to_float(score_text)
    IN  IF ~ri.ok \/ ~re.ok \/ ~rs.ok THEN Raise("ValueError")
        ELSE IF ed \notin Edition THEN Raise("KeyError")
        ELSE Return([journal |-> Strip(journal), issn |-> ri.value,
                     eissn |-> re.value, score |-> rs.value, edition |-> ed,
                     category |-> parse_wos_categories_first(category)])

\* RelativeInfluenceScore.is_valid
RelativeInfluenceScore_is_valid(r) ==
    /\ ~(r.issn # None /\ ~ISSN_is_valid(r.issn))
    /\ ~(r.eissn # None /\ ~ISSN_is_valid(r.eissn))
    /\ r.journal # <<>>
    /\ ~(r.issn = None /\ r.eissn = None)
    /\ r.score >= 0

\* Score.is_valid (inherited by RelativeImpactFactor and ArticleInfluenceScore)
Score_is_valid(r) ==
    /\ ~(r.issn # None /\ ~ISSN_is_valid(r.issn))
    /\ ~(r.eissn # None /\ ~ISSN_is_valid(r.eissn))
    /\ r.journal # <<>>
    /\ ~(r.score < 0)

\* str(x) of an optional ISSN
StrOpt(i) == IF i = None THEN T_None ELSE ISSN_str(i)

\* do a and b fall on the same key of the RIS parser's dictionary
RIS_same_key(a, b) == <<StrOpt(a.issn), StrOpt(a.eissn)>> = <<StrOpt(b.issn), StrOpt(b.eissn)>>

\* Score.__hash__ and Score.__eq__: dictionary lookup finds b from a iff the
\* hashed tuples agree and __eq__ holds
Score_same_key(a, b) ==
    /\ <<a.issn, a.eissn>> = <<b.issn, b.eissn>>
    /\ a.issn = b.issn /\ a.eissn = b.eissn

\* ArticleInfluenceScore.__hash__ and __eq__
ArticleInfluenceScore_same_key(a, b) ==
    /\ <<a.issn, a.eissn, a.category, a.edition>> = <<b.issn, b.eissn, b.category, b.edition>>
    /\ a.issn = b.issn /\ a.eissn = b.eissn /\ a.edition = b.edition

-----------------------------------------------------------------------------
(* Row mappers (parse_row), one per parser class                           *)

\* the outcome of parse_row: a score, None (end of data) or an exception
RowScore(r) == [ok |-> TRUE, end |-> FALSE, value |-> r]

RowNone == [ok |-> TRUE, end |-> TRUE]

FromStrings(r) == IF r.ok THEN RowScore(r.value) ELSE r

\* RelativeInfluenceScoreParser.parse_row and its 2025 and 2020 overrides
RelativeInfluenceScoreParser_parse_row(parser, row) ==
    LET n == IF parser = "RIS2025" THEN 5 ELSE IF parser = "RIS2020" THEN 3 ELSE 4
    IN  IF Len(row) # n THEN Raise("ValueError")
        ELSE IF LastIsEmpty(row) THEN RowNone
        ELSE IF parser = "RIS2025"
             THEN FromStrings(RelativeInfluenceScore_from_strings(
                      CellText(row, 0), CellText(row, 1), CellText(row, 2), CellText(row, 4)))
        ELSE IF parser = "RIS2020"
             THEN FromStrings(RelativeInfluenceScore_from_strings(
                      CellText(row, 0), CellText(row, 1), T_NA, CellText(row, 2)))
        ELSE FromStrings(RelativeInfluenceScore_from_strings(
                      CellText(row, 0), CellText(row, 1), CellText(row, 2), CellText(row, 3)))

\* XLSXParser.ncolumns, as overridden by each parser class
ncolumns(parser) ==
    CASE parser = "RIF" -> 4
      [] parser = "RIF2025" -> 5
      [] parser = "RIF2020" -> 3
      [] parser \in {"AIS", "AIS2023", "AIS2020"} -> 6
      [] parser \in {"AIS2022", "AIS2021"} -> 7

\* a parse_row that does not test for the end of the data
RelativeImpactFactorPraser_parse_row_noend(parser, row) ==
    IF parser = "RIF2025"
    THEN FromStrings(RelativeImpactFactor_from_strings(
             CellText(row, 0), CellText(row, 1), CellText(row, 2), CellText(row, 4)))
    ELSE IF parser = "RIF2020"
         THEN FromStrings(RelativeImpactFactor_from_strings(
                  CellText(row, 0), CellText(row, 1), T_NA, CellText(row, 2)))
    ELSE FromStrings(RelativeImpactFactor_from_strings(
                  CellText(row, 0), CellText(row, 1), CellText(row, 2), CellText(row, 3)))

\* RelativeImpactFactorPraser.parse_row and its 2025 and 2020 overrides
RelativeImpactFactorPraser_parse_row(parser, row) ==
    IF LastIsEmpty(row) THEN RowNone
    ELSE IF parser = "RIF2025"
         THEN FromStrings(RelativeImpactFactor_from_strings(
                  CellText(row, 0), CellText(row, 1), CellText(row, 2), CellText(row, 4)))
    ELSE IF parser = "RIF2020"
         THEN FromStrings(RelativeImpactFactor_from_strings(
                  CellText(row, 0), CellText(row, 1), T_NA, CellText(row, 2)))
    ELSE FromStrings(RelativeImpactFactor_from_strings(
                  CellText(row, 0), CellText(row, 1), CellText(row, 2), CellText(row, 3)))

\* ArticleInfluenceScoreParser.parse_row and its 2023, 2022, 2021, 2020 overrides
ArticleInfluenceScoreParser_parse_row(parser, row) ==
    IF LastIsEmpty(row) THEN RowNone
    ELSE IF parser = "AIS2023"
         THEN LET col == CellText(row, 3)
              IN  IF ~Contains(col, "-") THEN Raise("ValueError")
                  ELSE FromStrings(ArticleInfluenceScore_from_strings(
                           CellText(row, 0), CellText(row, 1), CellText(row, 2),
                           SubSeq(col, 1, LastIndexOf(col, "-") - 1),
                           SubSeq(col, LastIndexOf(col, "-") + 1, Len(col)),
                           CellText(row, 4)))
    ELSE IF parser = "AIS2022"
         THEN LET col == CellText(row, 5)
              IN  IF ~Contains(col, "-") THEN Raise("ValueError")
                  ELSE FromStrings(ArticleInfluenceScore_from_strings(
                           CellText(row, 0), CellText(row, 1), CellText(row, 2),
                           SubSeq(col, 1, LastIndexOf(col, "-") - 1),
                           CellText(row, 4), CellText(row, 3)))
    ELSE IF parser = "AIS2021"
         THEN FromStrings(ArticleInfluenceScore_from_strings(
                  CellText(row, 0), CellText(row, 1), CellText(row, 2), CellText(row, 5),
                  GetOrSelf(AIS_EDITION_NAMES, CellText(row, 4)), CellText(row, 3)))
    ELSE IF parser = "AIS2020"
         THEN FromStrings(ArticleInfluenceScore_from_strings(
                  CellText(row, 0), CellText(row, 1), T_NA, CellText(row, 4),
                  CellText(row, 3), CellText(row, 2)))
    ELSE FromStrings(ArticleInfluenceScore_from_strings(
                  CellText(row, 0), CellText(row, 1), CellText(row, 2), CellText(row, 3),
                  CellText(row, 4), CellText(row, 5)))

\* self.parse_row of an XLSXParser subclass
parse_row(parser, row) ==
    IF parser \in {"RIF", "RIF2025", "RIF2020"}
    THEN RelativeImpactFactorPraser_parse_row(parser, row)
    ELSE ArticleInfluenceScoreParser_parse_row(parser, row)

\* score.is_valid of the score class an XLSXParser subclass produces
is_valid(parser, r) == Score_is_valid(r)

\* `score in result` / result[score] for the score class of the parser
same_key(parser, a, b) ==
    IF parser \in {"RIF", "RIF2025", "RIF2020"}
    THEN Score_same_key(a, b)
    ELSE ArticleInfluenceScore_same_key(a, b)

-----------------------------------------------------------------------------
(* The parse loops.  `result` is the dictionary's values in insertion      *)
(* order; assigning to an existing key keeps its position.                 *)

\* a slip in the merge: the later row always replaces the stored record
keep_latest(other, score) == score

\* `if other.score < score.score: result[score] = score`: the record stored
\* under the key after a collision (the same statement in both parse loops)
keep_bigger(other, score) == IF other.score < score.score THEN score ELSE other

\* the loop of RelativeInfluenceScoreParser.parse, from row i on
RECURSIVE RelativeInfluenceScoreParser_loop(_, _, _, _)
RelativeInfluenceScoreParser_loop(parser, rows, i, result) ==
    IF i > Len(rows) THEN Return(result)
    ELSE LET score == RelativeInfluenceScoreParser_parse_row(parser, rows[i])
         IN  IF ~score.ok THEN score
             ELSE IF score.end THEN Return(result)
             ELSE IF ~RelativeInfluenceScore_is_valid(score.value)
                  THEN Raise("ParsingError")
             ELSE IF \E k \in 1..Len(result) : RIS_same_key(result[k], score.value)
                  THEN LET k == CHOOSE k \in 1..Len(result) :
                                    RIS_same_key(result[k], score.value)
                       IN  RelativeInfluenceScoreParser_loop(parser, rows, i + 1,
                               [result EXCEPT ![k] = keep_bigger(result[k], score.value)])
             ELSE RelativeInfluenceScoreParser_loop(parser, rows, i + 1,
                      Append(result, score.value))

\* RelativeInfluenceScoreParser.parse (rows: the worksheet after its header)
RelativeInfluenceScoreParser_parse(parser, rows) ==
    RelativeInfluenceScoreParser_loop(parser, rows, 1, <<>>)

\* the loop of XLSXParser.parse, from row i on
RECURSIVE XLSXParser_loop(_, _, _, _)
XLSXParser_loop(parser, rows, i, result) ==
    IF i > Len(rows) THEN Return(result)
    ELSE IF Len(rows[i]) # ncolumns(parser) THEN Raise("ParsingError")
    ELSE LET score == parse_row(parser, rows[i])
         IN  IF ~score.ok THEN score
             ELSE IF score.end THEN Return(result)
             ELSE IF ~is_valid(parser, score.value) THEN Raise("ParsingError")
             ELSE IF \E k \in 1..Len(result) : same_key(parser, result[k], score.value)
                  THEN LET k == CHOOSE k \in 1..Len(result) :
                                    same_key(parser, result[k], score.value)
                       IN  XLSXParser_loop(parser, rows, i + 1,
                               [result EXCEPT ![k] = keep_bigger(result[k], score.value)])
             ELSE XLSXParser_loop(parser, rows, i + 1, Append(result, score.value))

\* XLSXParser.parse (rows: the worksheet after its header)
XLSXParser_parse(parser, rows) == XLSXParser_loop(parser, rows, 1, <<>>)

\* a slip in the wrapper: no try/except, every exception propagates as it is
Wrap_nothing(r) == r

\* the `except Exception` of parse_*: every exception becomes a ParsingError
Wrap(r) == IF r.ok THEN r ELSE Raise("ParsingError")

\* parse_relative_influence_score, for an existing file
parse_relative_influence_score(rows, ver) ==
    IF ver \notin UEFISCDI_DATABASE_URL THEN Raise("ValueError")
    ELSE Wrap(RelativeInfluenceScoreParser_parse(
             IF ver = 2025 THEN "RIS2025" ELSE IF ver = 2020 THEN "RIS2020" ELSE "RIS",
             rows))

\* parse_relative_impact_factor, for an existing file
parse_relative_impact_factor(rows, ver) ==
    IF ver \notin UEFISCDI_DATABASE_URL THEN Raise("ValueError")
    ELSE Wrap(XLSXParser_parse(
             IF ver = 2025 THEN "RIF2025" ELSE IF ver = 2020 THEN "RIF2020" ELSE "RIF",
             rows))

\* parse_article_influence_score, for an existing file (decrypted or not)
parse_article_influence_score(rows, ver) ==
    IF ver \notin UEFISCDI_DATABASE_URL THEN Raise("ValueError")
    ELSE Wrap(XLSXParser_parse(
             IF ver = 2023 THEN "AIS2023"
             ELSE IF ver = 2022 THEN "AIS2022"
             ELSE IF ver = 2021 THEN "AIS2021"
             ELSE IF ver = 2020 THEN "AIS2020" ELSE "AIS",
             rows))

-----------------------------------------------------------------------------
(* The parser specification: one worksheet, one call of a parse_* function *)

MaxRows == 3

SeqsUpTo(S, n) == UNION {[1..k -> S] : k \in 0..n}

\* a row of an RIS/RIF worksheet in the column layout of edition v
ScoreRow(v, j, i, e, s) ==
    IF v = 2025 THEN <<Cell(j), Cell(i), Cell(e), Cell(T_x), Cell(s)>>
    ELSE IF v = 2020 THEN <<Cell(j), Cell(i), Cell(s)>>
    ELSE <<Cell(j), Cell(i), Cell(e), Cell(s)>>

\* a trailing row of a worksheet of n columns (its last cell is an EmptyCell)
EndRow(n) == [k \in 1..n |-> EmptyCell]

ScoreColumns(v) == IF v = 2025 THEN 5 ELSE IF v = 2020 THEN 3 ELSE 4

ScorePool(v) ==
    { ScoreRow(v, T_A, T_1234_5679, T_NA, T_1),
      ScoreRow(v, T_B, T_1234_5679, T_na, T_2),
      ScoreRow(v, T_A, T_0006_808x, T_2254_8854, T_3),
      ScoreRow(v, T_C, T_NA, T_0, T_2),
      ScoreRow(v, T_A, T_1234_5678, T_NA, T_1),
      ScoreRow(v, T_A, T_12345678, T_NA, T_1),
      ScoreRow(v, T_A, T_1234_5679, T_NA, T_m1),
      EndRow(ScoreColumns(v)),
      [k \in 1..(ScoreColumns(v) - 1) |-> Cell(T_1)] }

Dash == <<" ", "-", " ">>

\* the edition as the 2021 files spell it
Spell2021(ed) ==
    IF ed = T_SCIE THEN T_SCIENCE ELSE IF ed = T_SSCI THEN T_SOCIAL_SCIENCES ELSE ed

\* a row of an AIS worksheet in the column layout of edition v
AISRow(v, j, i, e, cat, ed, s) ==
    IF v = 2023
    THEN <<Cell(j), Cell(i), Cell(e), Cell(cat \o Dash \o ed), Cell(s), Cell(T_x)>>
    ELSE IF v = 2022
    THEN <<Cell(j), Cell(i), Cell(e), Cell(s), Cell(ed), Cell(cat \o Dash \o ed), Cell(T_x)>>
    ELSE IF v = 2021
    THEN <<Cell(j), Cell(i), Cell(e), Cell(s), Cell(Spell2021(ed)), Cell(cat), Cell(T_x)>>
    ELSE IF v = 2020
    THEN <<Cell(j), Cell(i), Cell(s), Cell(ed), Cell(cat), Cell(T_x)>>
    ELSE <<Cell(j), Cell(i), Cell(e), Cell(cat), Cell(ed), Cell(s)>>

AISColumns(v) == IF v \in {2021, 2022} THEN 7 ELSE 6

AISPool(v) ==
    { AISRow(v, T_A, T_1234_5679, T_NA, T_MATH, T_SCIE, T_1),
      AISRow(v, T_B, T_1234_5679, T_NA, T_MATH, T_SCIE, T_2),
      AISRow(v, T_A, T_1234_5679, T_NA, T_PHYS, T_SCIE, T_3),
      AISRow(v, T_C, T_NA, T_NA, T_MATH, T_SSCI, T_1),
      AISRow(v, T_A, T_1234_5679, T_NA, T_MATH, T_ZZZZ, T_1),
      AISRow(v, T_A, T_0006_808X, T_NA, T_MATH, T_AHCI_SSCI, T_m1),
      EndRow(AISColumns(v)),
      [k \in 1..(AISColumns(v) - 1) |-> Cell(T_1)] }

NotCalled == [ok |-> FALSE, exc |-> "none"]

IssnIdle == issn = <<T_0, T_0>> /\ valid = [called |-> FALSE]

ParseIdle == metric = "none" /\ version = 0 /\ sheet = <<>> /\ parsed = NotCalled

Metrics == {"RIS", "RIF", "AIS"}

StoreIdle ==
    /\ conn = [m \in Metrics |-> FALSE]
    /\ disk = [m \in Metrics |-> EmptyBag]
    /\ txn = [m \in Metrics |-> EmptyBag]
    /\ query = [op |-> "none"]
    /\ indexed = [m \in Metrics |-> FALSE]

EnrichIdle ==
    /\ pubs = <<>>
    /\ cites = <<>>
    /\ kinds = [none |-> TRUE]
    /\ swindow = 0
    /\ enriched = [op |-> "none"]

IdentIdle == input = <<>> /\ ident = [op |-> "none"]

\* no file at the destination, download_file not called
NoFile == [exists |-> FALSE]

LoadIdle == cache = NoFile /\ fetched = [op |-> "none"]

CommandIdle == command = [pc |-> "none"]

InitParse ==
    /\ version \in UEFISCDI_DATABASE_URL
    /\ sheet \in SeqsUpTo(ScorePool(version), MaxRows) \cup SeqsUpTo(AISPool(version), MaxRows)
    /\ metric = "none"
    /\ parsed = NotCalled
    /\ IssnIdle /\ StoreIdle /\ EnrichIdle /\ IdentIdle /\ LoadIdle /\ CommandIdle

ParseRIS ==
    /\ metric = "none"
    /\ metric' = "RIS"
    /\ parsed' = parse_relative_influence_score(sheet, version)
    /\ UNCHANGED <<version, sheet, issnVars, storeVars, enrichVars, identVars, loadVars, command>>

ParseRIF ==
    /\ metric = "none"
    /\ metric' = "RIF"
    /\ parsed' = parse_relative_impact_factor(sheet, version)
    /\ UNCHANGED <<version, sheet, issnVars, storeVars, enrichVars, identVars, loadVars, command>>

ParseAIS ==
    /\ metric = "none"
    /\ metric' = "AIS"
    /\ parsed' = parse_article_influence_score(sheet, version)
    /\ UNCHANGED <<version, sheet, issnVars, storeVars, enrichVars, identVars, loadVars, command>>

NextParse == ParseRIS \/ ParseRIF \/ ParseAIS

SpecParse == InitParse /\ [][NextParse]_vars

-----------------------------------------------------------------------------
(* Claims about the parsers                                                *)

\* the parser class the dispatch of parse_* selects for a metric and a year
ParserOf(m, v) ==
    IF m = "RIS" THEN (IF v = 2025 THEN "RIS2025" ELSE IF v = 2020 THEN "RIS2020" ELSE "RIS")
    ELSE IF m = "RIF"
    THEN (IF v = 2025 THEN "RIF2025" ELSE IF v = 2020 THEN "RIF2020" ELSE "RIF")
    ELSE (IF v = 2023 THEN "AIS2023" ELSE IF v = 2022 THEN "AIS2022"
          ELSE IF v = 2021 THEN "AIS2021" ELSE IF v = 2020 THEN "AIS2020" ELSE "AIS")

\* the column count the layout of (m, v) expects
ExpectedColumns(m, v) ==
    IF m \in {"RIS", "RIF"} THEN (IF v = 2025 THEN 5 ELSE IF v = 2020 THEN 3 ELSE 4)
    ELSE (IF v \in {2021, 2022} THEN 7 ELSE 6)

\* what the row mapper of (m, v) makes of one row of the expected width
RowOutcome(m, v, row) ==
    IF m = "RIS" THEN RelativeInfluenceScoreParser_parse_row(ParserOf(m, v), row)
    ELSE parse_row(ParserOf(m, v), row)

\* the number of rows before the end of data: the rows before the first row
\* whose last column is structurally empty
NData(rows) ==
    IF \E i \in 1..Len(rows) : LastIsEmpty(rows[i])
    THEN (CHOOSE i \in 1..Len(rows) :
              LastIsEmpty(rows[i]) /\ \A j \in 1..(i - 1) : ~LastIsEmpty(rows[j])) - 1
    ELSE Len(rows)

\* a row-level malformation: wrong column count, a cell that fails to
\* convert (identifier, score, edition), a bad checksum or a negative score
Malformed(m, v, row) ==
    \/ Len(row) # ExpectedColumns(m, v)
    \/ LET r == RowOutcome(m, v, row)
       IN  \/ ~r.ok
           \/ /\ ~r.end
              /\ \/ r.value.score < 0
                 \/ r.value.issn # None /\ ~ISSN_is_valid(r.value.issn)
                 \/ r.value.eissn # None /\ ~ISSN_is_valid(r.value.eissn)

\* the scores of the data rows of the parsed sheet (all rows well-formed)
DataScores == [i \in 1..NData(sheet) |-> RowOutcome(metric, version, sheet[i]).value]

Pair(r) == <<r.issn, r.eissn>>

\* C1: after parse_relative_influence_score or parse_relative_impact_factor
\* returns, the result holds exactly one record for every distinct
\* (ISSN, eISSN) pair among the data rows and no other record, whatever the
\* journal names, and its score is the maximum score of the rows with that pair.
C1_OneRecordPerPairWithMaxScore ==
    (metric \in {"RIS", "RIF"} /\ parsed.ok) =>
        LET res == parsed.value
            rows == DataScores
        IN  /\ \A i \in 1..Len(rows) : \E k \in 1..Len(res) : Pair(res[k]) = Pair(rows[i])
            /\ \A k \in 1..Len(res) : \E i \in 1..Len(rows) : Pair(res[k]) = Pair(rows[i])
            /\ \A k, l \in 1..Len(res) : Pair(res[k]) = Pair(res[l]) => k = l
            /\ \A k \in 1..Len(res) :
                   res[k].score =
                       Max({rows[i].score : i \in {j \in 1..Len(rows) : Pair(rows[j]) = Pair(res[k])}})

\* C1 witness: two rows with the same pair, different journal names and a
\* lower score on the later row were merged into one record
C1_Witness ==
    /\ metric \in {"RIS", "RIF"} /\ parsed.ok /\ Len(parsed.value) = 1
    /\ \E i, j \in 1..NData(sheet) :
           /\ i < j
           /\ Pair(DataScores[i]) = Pair(DataScores[j])
           /\ DataScores[i].journal # DataScores[j].journal
           /\ DataScores[i].score > DataScores[j].score

\* C8: a parse_* call on an existing file of a supported year returns or
\* raises ParsingError, never another exception; it raises whenever a row
\* before the end of data is malformed; and when it returns, every row before
\* the end of data is accounted for by a record of its identifiers with at
\* least its score (no partial prefix).
C8_AllOrParsingError ==
    (metric # "none") =>
        /\ parsed.ok \/ parsed.exc = "ParsingError"
        /\ (\E i \in 1..NData(sheet) : Malformed(metric, version, sheet[i])) => ~parsed.ok
        /\ parsed.ok =>
               \A i \in 1..NData(sheet) : \E k \in 1..Len(parsed.value) :
                   /\ Pair(parsed.value[k]) = Pair(DataScores[i])
                   /\ parsed.value[k].score >= DataScores[i].score

\* C8 witness: a malformed row after a well-formed one made the call raise
C8_Witness ==
    /\ metric # "none" /\ ~parsed.ok /\ parsed.exc = "ParsingError"
    /\ NData(sheet) >= 2
    /\ ~Malformed(metric, version, sheet[1])
    /\ Malformed(metric, version, sheet[2])

\* C9 (parser half): no record returned by a parser lacks both identifiers
C9_NoRecordWithoutIdentifier ==
    (metric # "none" /\ parsed.ok) =>
        \A k \in 1..Len(parsed.value) :
            ~(parsed.value[k].issn = None /\ parsed.value[k].eissn = None)

-----------------------------------------------------------------------------
(* The ISSN specification: one ISSN value, one evaluation of is_valid      *)

IssnPart0 == {<<"0", "0", "0", "6">>, <<"1", "2", "3", "4">>, <<"A", "B", "C", "D">>}

IssnMiddle == {"0", "1", "5", "8", "9", "X"}

IssnLast == Digits \cup {"X", "x", "A"}

\* ISSN values: two 4-character parts, and two with parts of other sizes
IssnValues ==
    {<<p, <<a, b, c, d>>>> : p \in IssnPart0,
                             a \in IssnMiddle, b \in IssnMiddle, c \in IssnMiddle,
                             d \in IssnLast}
    \cup {<<<<"1", "2", "3">>, <<"4", "5", "6", "7", "9">>>>,
          <<<<"1", "2", "3", "4">>, <<"5", "6", "7">>>>}

InitIssn ==
    /\ issn \in IssnValues
    /\ valid = [called |-> FALSE]
    /\ ParseIdle /\ StoreIdle /\ EnrichIdle /\ IdentIdle /\ LoadIdle /\ CommandIdle

CheckIssn ==
    /\ ~valid.called
    /\ valid' = [called |-> TRUE, result |-> ISSN_is_valid(issn)]
    /\ UNCHANGED <<issn, parseVars, storeVars, enrichVars, identVars, loadVars, command>>

NextIssn == CheckIssn

SpecIssn == InitIssn /\ [][NextIssn]_vars

\* the value a check character stands for in the mod-11 sum
CheckValue(c) == IF c = "X" THEN 10 ELSE DigitVal(c)

\* C10: for an ISSN with two 4-character parts, is_valid is true exactly
\* when the first seven characters are digits d1..d7 and the eighth is the
\* check character of 11 - (8*d1 + 7*d2 + 6*d3 + 5*d4 + 4*d5 + 3*d6 + 2*d7) mod 11
\* ('0' for 11, 'X' for 10); a true result implies the weighted sum
\* including the check value is divisible by 11.
C10_IsValidIsMod11Checksum ==
    (valid.called /\ Len(issn[1]) = 4 /\ Len(issn[2]) = 4) =>
        LET s == issn[1] \o issn[2]
            digits == \A k \in 1..7 : s[k] \in Digits
            sum == 8 * DigitVal(s[1]) + 7 * DigitVal(s[2]) + 6 * DigitVal(s[3])
                   + 5 * DigitVal(s[4]) + 4 * DigitVal(s[5]) + 3 * DigitVal(s[6])
                   + 2 * DigitVal(s[7])
            c == 11 - (sum % 11)
        IN  /\ valid.result =
                   (digits /\ s[8] = (IF c = 11 THEN "0" ELSE IF c = 10 THEN "X"
                                      ELSE DigitChar(c)))
            /\ valid.result =>
                   (s[8] \in Digits \cup {"X"} /\ (sum + CheckValue(s[8])) % 11 = 0)

\* C10 witness: a valid ISSN whose check character is the '0' written for 11
C10_Witness ==
    /\ valid.called /\ valid.result
    /\ Len(issn[1]) = 4 /\ Len(issn[2]) = 4
    /\ issn[2][4] = "0"

-----------------------------------------------------------------------------
(* The score store: one sqlite file, one table per metric.  A table is a   *)
(* bag of rows (the autoincrement id tells equal rows apart); NULL is None.*)

\* str(n) of a score
RECURSIVE NatText(_)
NatText(n) == IF n < 10 THEN <<DigitChar(n)>> ELSE NatText(n \div 10) \o <<DigitChar(n % 10)>>

ScoreText(n) == IF n < 0 THEN <<"-">> \o NatText(0 - n) ELSE NatText(n)

\* the REAL affinity of the score column applied to a bound text value
RealAffinity(text) == Float(text).value

\* str(Category)
Category_str(c) == IF c.field # None THEN c.name \o <<",", " ">> \o c.field[1] ELSE c.name

\* str(Edition.X)
Edition_str(ed) == <<"E", "d", "i", "t", "i", "o", "n", ".">> \o ed

\* Score.issns / Score.eissns: str(issn) if issn else None
issns(i) == IF i # None THEN ISSN_str(i) ELSE None

\* the row DB.insert (ris.py) binds for one record: r.issns, r.eissns, r.score
DB_row(year, r) ==
    [year |-> year, journal |-> r.journal, issn |-> issns(r.issn),
     eissn |-> issns(r.eissn), score |-> r.score]

\* the row Database.insert binds for one record: (year, *astuple(r)), every
\* field passed through str() unless it is None
astuple_row(m, year, r) ==
    IF m = "AIS"
    THEN [year |-> year, journal |-> r.journal, issn |-> issns(r.issn),
          eissn |-> issns(r.eissn), score |-> RealAffinity(ScoreText(r.score)),
          edition |-> Edition_str(r.edition), category |-> Category_str(r.category)]
    ELSE [year |-> year, journal |-> r.journal, issn |-> issns(r.issn),
          eissn |-> issns(r.eissn), score |-> RealAffinity(ScoreText(r.score))]

\* the UNIQUE constraint of the schema: sqlite treats NULLs as distinct, so a
\* row conflicts only with a stored row equal to it on every key column, none
\* of them NULL
Conflict(m, table, row) ==
    \E r \in BagToSet(table) :
        /\ r.year = row.year
        /\ row.issn # None /\ r.issn = row.issn
        /\ row.eissn # None /\ r.eissn = row.eissn
        /\ m = "AIS" => (r.edition = row.edition /\ r.category = row.category)

\* executemany: rows are inserted one by one; the first conflict raises and
\* leaves the rows inserted before it in the open transaction
RECURSIVE executemany(_, _, _, _)
executemany(m, table, rows, i) ==
    IF i > Len(rows) THEN [ok |-> TRUE, table |-> table]
    ELSE IF Conflict(m, table, rows[i])
         THEN [ok |-> FALSE, exc |-> "IntegrityError", table |-> table]
    ELSE executemany(m, table (+) SetToBag({rows[i]}), rows, i + 1)

\* DB.insert (ris.py)
DB_insert(connected, table, year, ris) ==
    IF ~connected THEN [ok |-> FALSE, exc |-> "ValueError", table |-> table]
    ELSE executemany("RIS", table, [k \in 1..Len(ris) |-> DB_row(year, ris[k])], 1)

\* Database.insert without the test of the connection
Database_insert_open(m, connected, table, year, rif) ==
    IF rif = <<>> THEN [ok |-> TRUE, table |-> table]
    ELSE executemany(m, table, [k \in 1..Len(rif) |-> astuple_row(m, year, rif[k])], 1)

\* Database.insert (common.py), for the table of metric m
Database_insert(m, connected, table, year, rif) ==
    IF ~connected THEN [ok |-> FALSE, exc |-> "ValueError", table |-> table]
    ELSE IF rif = <<>> THEN [ok |-> TRUE, table |-> table]
    ELSE executemany(m, table, [k \in 1..Len(rif) |-> astuple_row(m, year, rif[k])], 1)

\* SELECT MAX(score): NULL over no rows
SqlMax(S) == IF S = {} THEN [null |-> TRUE] ELSE [null |-> FALSE, value |-> Max(S)]

\* the identifier argument of a lookup: a text or an ISSN value
IdText(id) == IF id.str THEN id.val ELSE ISSN_str(id.val)

IdValid(id) == IF id.str THEN is_valid_issn_str(id.val) ELSE is_valid_issn(id.val)

\* DB.max_score_by_issn (ris.py)
DB_max_score_by_issn(connected, table, id, past) ==
    IF ~connected THEN Raise("ValueError")
    ELSE IF ~IdValid(id) THEN Raise("ValueError")
    ELSE Return(SqlMax({r.score : r \in
             {x \in BagToSet(table) :
                 /\ (x.issn = IdText(id) \/ x.eissn = IdText(id))
                 /\ x.year >= UEFISCDI_LATEST_YEAR - past}}))

\* Database.max_score_by_issn (common.py)
Database_max_score_by_issn(connected, table, id, past) ==
    IF ~connected THEN Raise("ValueError")
    ELSE IF ~IdValid(id) THEN Raise("ValueError")
    ELSE Return(SqlMax({r.score : r \in
             {x \in BagToSet(table) :
                 /\ (x.issn = IdText(id) \/ x.eissn = IdText(id))
                 /\ x.year >= UEFISCDI_LATEST_YEAR - past}}))

\* ISSN.from_string(issn) if issn else None, on a column value
ColumnIssn(col) == IF col = None \/ col = <<>> THEN Return(None) ELSE ISSN_from_string(col)

\* the result of a point lookup: None, or the record built from a row
NotFound == [found |-> FALSE]

Found(rec) == [found |-> TRUE, score |-> rec]

\* the RelativeInfluenceScore / RelativeImpactFactor built from a row
ScoreOfRow(r) ==
    IF ~ColumnIssn(r.issn).ok \/ ~ColumnIssn(r.eissn).ok THEN Raise("ValueError")
    ELSE Return(Found([journal |-> r.journal, issn |-> ColumnIssn(r.issn).value,
                       eissn |-> ColumnIssn(r.eissn).value, score |-> r.score]))

\* the ArticleInfluenceScore built from a row: the edition column is looked
\* up by name in Edition, the category column is parsed
ArticleInfluenceScoreOfRow(r) ==
    IF ~ColumnIssn(r.issn).ok \/ ~ColumnIssn(r.eissn).ok THEN Raise("ValueError")
    ELSE IF r.edition \notin Edition THEN Raise("KeyError")
    ELSE Return(Found([journal |-> r.journal, issn |-> ColumnIssn(r.issn).value,
                       eissn |-> ColumnIssn(r.eissn).value, score |-> r.score,
                       edition |-> r.edition,
                       category |-> parse_wos_categories_first(r.category)]))

\* the first row of fetchall(), for every order the rows can come in
FirstRow(m, rows) ==
    IF rows = {} THEN {Return(NotFound)}
    ELSE {IF m = "AIS" THEN ArticleInfluenceScoreOfRow(r) ELSE ScoreOfRow(r) : r \in rows}

\* DB.find_by_issn (ris.py)
DB_find_by_issn(connected, table, id) ==
    IF ~connected THEN {Raise("ValueError")}
    ELSE IF ~IdValid(id) THEN {Raise("ValueError")}
    ELSE FirstRow("RIS", {x \in BagToSet(table) :
                             x.issn = IdText(id) \/ x.eissn = IdText(id)})

\* Database.find_by_issn (common.py) with find_by_issn_impl of rif.py, ais.py
Database_find_by_issn(m, connected, table, id, year) ==
    IF ~connected THEN {Raise("ValueError")}
    ELSE IF ~IdValid(id) THEN {Raise("ValueError")}
    ELSE IF year \notin UEFISCDI_DATABASE_URL THEN {Raise("ValueError")}
    ELSE FirstRow(m, {x \in BagToSet(table) :
                         /\ (x.issn = IdText(id) \/ x.eissn = IdText(id))
                         /\ x.year = year})

find_by_issn(m, connected, table, id, year) ==
    IF m = "RIS" THEN DB_find_by_issn(connected, table, id)
    ELSE Database_find_by_issn(m, connected, table, id, year)

\* db.insert / db.max_score_by_issn of the store class of metric m
insert(m, connected, table, year, recs) ==
    IF m = "RIS" THEN DB_insert(connected, table, year, recs)
    ELSE Database_insert(m, connected, table, year, recs)

max_score_by_issn(m, connected, table, id, past) ==
    IF m = "RIS" THEN DB_max_score_by_issn(connected, table, id, past)
    ELSE Database_max_score_by_issn(connected, table, id, past)

-----------------------------------------------------------------------------
(* The store specification: sessions, inserts and window queries           *)

MaxStored == 2

I_1234_5679 == ISSN_from_string(T_1234_5679).value

I_0006_808X == ISSN_from_string(T_0006_808X).value

I_0378_5955 == ISSN_from_string(T_0378_5955).value

I_1234_5678 == ISSN_from_string(T_1234_5678).value

MATH == [name |-> T_MATH, field |-> None]

\* records as the parsers return them
R_issn == [journal |-> T_A, issn |-> I_1234_5679, eissn |-> None, score |-> 1]

R_eissn == [journal |-> T_B, issn |-> None, eissn |-> I_1234_5679, score |-> 2]

R_both == [journal |-> T_A, issn |-> I_0006_808X, eissn |-> I_1234_5679, score |-> 3]

R_none == [journal |-> T_C, issn |-> None, eissn |-> None, score |-> 2]

StoreRecs(m) ==
    IF m = "RIS" THEN {R_issn, R_eissn}
    ELSE IF m = "RIF" THEN {R_both, R_none}
    ELSE { [journal |-> T_A, issn |-> I_0006_808X, eissn |-> I_1234_5679, score |-> 3,
            edition |-> T_SSCI, category |-> MATH] }

StoreYears == {2020, 2024, 2025}

Pasts == {1, 5}

\* the identifiers looked up between inserts: one stored, one never stored
StoreIds == {[str |-> TRUE, val |-> T_1234_5679], [str |-> TRUE, val |-> T_0378_5955]}

NoQuery == [op |-> "none"]

FindYears == {2019, 2024, UEFISCDI_LATEST_YEAR}

Stored == BagCardinality(txn["RIS"]) + BagCardinality(txn["RIF"]) + BagCardinality(txn["AIS"])

InitStore ==
    /\ conn = [m \in Metrics |-> FALSE]
    /\ disk = [m \in Metrics |-> EmptyBag]
    /\ txn = [m \in Metrics |-> EmptyBag]
    /\ query = NoQuery
    /\ indexed = [m \in Metrics |-> FALSE]
    /\ IssnIdle /\ ParseIdle /\ EnrichIdle /\ IdentIdle /\ LoadIdle /\ CommandIdle

\* Database.__enter__ / DB.__enter__: connect and create the table if needed
Enter(m) ==
    /\ \A k \in Metrics : ~conn[k]
    /\ conn' = [conn EXCEPT ![m] = TRUE]
    /\ txn' = [txn EXCEPT ![m] = disk[m]]
    /\ query' = NoQuery
    /\ UNCHANGED <<disk, indexed, issnVars, parseVars, enrichVars, identVars, loadVars, command>>

\* an __exit__ that rolls the transaction back when the body raised
Database_exit_rollback(file, pending, raised) == IF raised THEN file ELSE pending

\* the table the file holds after Database.__exit__ / DB.__exit__: the
\* pending rows are committed whether or not the body raised
Database_exit(file, pending, raised) == pending

\* Database.__exit__ / DB.__exit__, entered after the body finished or with
\* the exception the body raised: create the index, commit, close
Exit(m, raised) ==
    /\ conn[m]
    /\ indexed' = [indexed EXCEPT ![m] = TRUE]
    /\ disk' = [disk EXCEPT ![m] = Database_exit(disk[m], txn[m], raised)]
    /\ conn' = [conn EXCEPT ![m] = FALSE]
    /\ query' = [op |-> "exit", m |-> m, raised |-> raised, pending |-> txn[m]]
    /\ UNCHANGED <<txn, issnVars, parseVars, enrichVars, identVars, loadVars, command>>

\* db.insert(year, recs)
Insert(m, year, recs) ==
    /\ Stored + Len(recs) <= MaxStored
    /\ conn[m] \/ (year = UEFISCDI_LATEST_YEAR /\ Len(recs) = 1)
    /\ LET r == insert(m, conn[m], txn[m], year, recs)
       IN  /\ txn' = [txn EXCEPT ![m] = r.table]
           /\ query' = [op |-> "insert", m |-> m, connected |-> conn[m],
                        out |-> IF r.ok THEN Return(None) ELSE Raise(r.exc)]
    /\ UNCHANGED <<conn, disk, indexed, issnVars, parseVars, enrichVars, identVars, loadVars, command>>

\* db.max_score_by_issn(id, past)
MaxScore(m, id, past) ==
    /\ conn[m] \/ (id.val = T_1234_5679 /\ past = 5)
    /\ query' = [op |-> "max", m |-> m, id |-> id, past |-> past, connected |-> conn[m],
                 out |-> max_score_by_issn(m, conn[m], txn[m], id, past)]
    /\ UNCHANGED <<conn, disk, txn, indexed, issnVars, parseVars, enrichVars, identVars, loadVars, command>>

\* db.find_by_issn(id) of the RIS store, db.find_by_issn(id, year) of the
\* others; which matching row comes first is up to the database
FindByIssn(m, id, year) ==
    /\ conn[m] \/ id.val = T_1234_5679
    /\ m = "RIS" => year = UEFISCDI_LATEST_YEAR
    /\ \E o \in find_by_issn(m, conn[m], txn[m], id, year) :
           query' = [op |-> "find", m |-> m, id |-> id, year |-> year,
                     connected |-> conn[m], out |-> o]
    /\ UNCHANGED <<conn, disk, txn, indexed, issnVars, parseVars, enrichVars, identVars, loadVars, command>>

NextStore ==
    \/ \E m \in Metrics : Enter(m)
    \/ \E m \in Metrics, raised \in BOOLEAN : Exit(m, raised)
    \/ \E m \in Metrics, year \in StoreYears :
           \E recs \in SeqsUpTo(StoreRecs(m), MaxStored - Stored) : Insert(m, year, recs)
    \/ \E m \in Metrics, id \in StoreIds, past \in Pasts : MaxScore(m, id, past)
    \/ \E m \in Metrics : ~conn[m] /\ FindByIssn(m, [str |-> TRUE, val |-> T_1234_5679], UEFISCDI_LATEST_YEAR)

SpecStore == InitStore /\ [][NextStore]_vars

\* the rows of the open connection that carry the identifier in either column
Matching(m, id) ==
    {r \in BagToSet(txn[m]) : r.issn = IdText(id) \/ r.eissn = IdText(id)}

\* the `window` trailing years ending at the latest year of the URL table
Window(n) == (UEFISCDI_LATEST_YEAR - n + 1)..UEFISCDI_LATEST_YEAR

\* C2: on a connected store, max_score_by_issn(id, window=N) returns the
\* maximum score over exactly the stored rows matching id on issn or eissn
\* whose year is one of the N trailing years ending at 2025.
C2_MaxOverTrailingWindow ==
    (query.op = "max" /\ query.out.ok) =>
        query.out.value =
            SqlMax({r.score : r \in {x \in Matching(query.m, query.id) :
                                        x.year \in Window(query.past)}})

\* C3: in a new session, a row committed by an earlier, closed session whose
\* year lies in the window and which no other stored row of the identifier
\* in the window exceeds is what max_score_by_issn returns; a valid ISSN
\* without any stored row yields NULL and no error.
C3_RoundTripAcrossSessions ==
    (query.op = "max" /\ conn[query.m]) =>
        /\ \A r \in BagToSet(disk[query.m]) :
               ( /\ r \in Matching(query.m, query.id)
                 /\ r.year \in Window(query.past)
                 /\ \A x \in Matching(query.m, query.id) :
                        x.year \in Window(query.past) => x.score <= r.score )
               => (query.out.ok /\ ~query.out.value.null
                   /\ query.out.value.value = r.score)
        /\ (IdValid(query.id) /\ Matching(query.m, query.id) = {})
               => (query.out.ok /\ query.out.value.null)

-----------------------------------------------------------------------------
(* DOI and the publication fields the enrichment functions read            *)

\* _lowercase_ascii on one character
LowerChar(c) ==
    IF \E i \in 1..26 : UpperLetters[i] = c
    THEN LowerLetters[CHOOSE i \in 1..26 : UpperLetters[i] = c]
    ELSE c

\* _lowercase_ascii
lowercase_ascii(text) == [i \in 1..Len(text) |-> LowerChar(text[i])]

\* a DOI is <<namespace, registrant, item>>; DOI.__eq__ (and __hash__, which
\* hashes the same three values): the item is compared case-insensitively
DOI_eq(a, b) ==
    /\ a[1] = b[1]
    /\ a[2] = b[2]
    /\ lowercase_ascii(a[3]) = lowercase_ascii(b[3])

\* a Publication, reduced to the fields add_cited_by and add_scores read or
\* replace; `scores` is journal.scores as a set of <<kind, value>> pairs
Publication(identifier, doi, i, e, scores, cited_by, citations) ==
    [identifier |-> identifier, doi |-> doi, issn |-> i, eissn |-> e,
     scores |-> scores, cited_by |-> cited_by, citations |-> citations]

-----------------------------------------------------------------------------
(* enrich.add_cited_by                                                     *)

\* key comparison of the doi_to_pub dictionary (None only equals None)
KeyEq(a, b) == IF a = None \/ b = None THEN a = b ELSE DOI_eq(a, b)

\* position of a key in the insertion-ordered dictionary, 0 when absent
DictIndex(d, key) ==
    IF \E i \in 1..Len(d) : KeyEq(d[i].key, key)
    THEN CHOOSE i \in 1..Len(d) : KeyEq(d[i].key, key)
    ELSE 0

\* a dictionary that keeps a second entry for a key it holds already
DictPut_again(d, key, val) == Append(d, [key |-> key, val |-> val])

\* d[key] = val: an existing key keeps its position (and its key object)
DictPut(d, key, val) ==
    IF DictIndex(d, key) = 0 THEN Append(d, [key |-> key, val |-> val])
    ELSE [d EXCEPT ![DictIndex(d, key)].val = val]

\* a buggy filter that keeps candidates without a DOI
has_doi_any(pub) == TRUE

\* the comprehension's filter `if pub.doi is not None`
has_doi(pub) == pub.doi # None

RECURSIVE doi_to_pub(_, _, _)
\* doi_to_pub = {pub.doi: pub for pub in pubs if pub.doi is not None}
doi_to_pub(ps, i, d) ==
    IF i > Len(ps) THEN d
    ELSE doi_to_pub(ps, i + 1,
                    IF has_doi(ps[i]) THEN DictPut(d, ps[i].doi, ps[i]) ELSE d)

\* a buggy replacement that forgets the citers found so far
cited_by_only(pub, cite) == [pub EXCEPT !.cited_by = <<cite>>]

\* replace(pub, cited_by=(*pub.cited_by, cite))
cited_by_append(pub, cite) == [pub EXCEPT !.cited_by = Append(@, cite)]

RECURSIVE add_cited_by_cite(_, _, _)
\* the inner loop `for doi in cite.citations`
add_cited_by_cite(d, cite, j) ==
    IF j > Len(cite.citations) THEN d
    ELSE LET doi == cite.citations[j]
             k == DictIndex(d, doi)
         IN add_cited_by_cite(
                IF k # 0 THEN DictPut(d, doi, cited_by_append(d[k].val, cite)) ELSE d,
                cite, j + 1)

RECURSIVE add_cited_by_loop(_, _, _)
\* the outer loop `for cite in citations`
add_cited_by_loop(d, cs, i) ==
    IF i > Len(cs) THEN d
    ELSE add_cited_by_loop(add_cited_by_cite(d, cs[i], 1), cs, i + 1)

\* add_cited_by: the dictionary's values in insertion order
add_cited_by(ps, cs) ==
    LET d == add_cited_by_loop(doi_to_pub(ps, 1, <<>>), cs, 1)
    IN [i \in 1..Len(d) |-> d[i].val]

-----------------------------------------------------------------------------
(* The citation specification: add_cited_by on candidate and citing lists  *)

MaxPubs == 2

MaxCites == 2

T_10 == <<"1", "0">>

T_1234 == <<"1", "2", "3", "4">>

T_5678 == <<"5", "6", "7", "8">>

\* 10.1234/ab, 10.1234/Ab (the same DOI), 10.1234/c, 10.5678/ab
D_ab == <<T_10, T_1234, <<"a", "b">>>>

D_Ab == <<T_10, T_1234, <<"A", "b">>>>

D_c == <<T_10, T_1234, <<"c">>>>

D_other == <<T_10, T_5678, <<"a", "b">>>>

\* citing publications as read with include_citations: the keys of
\* `citations` are pairwise different DOIs
Citer0 == Publication("w0", D_other, None, None, {}, <<>>, <<D_c>>)

CiterX == Publication("wx", None, None, None, {}, <<>>, <<D_ab>>)

CiterY == Publication("wy", D_c, None, None, {}, <<>>, <<D_c, D_Ab>>)

CiterZ == Publication("wz", D_ab, None, None, {}, <<>>, <<D_other>>)

CitePool == {CiterX, CiterY, CiterZ}

\* candidates: two spellings of one DOI (one already cited), one without a
\* DOI, and two with DOIs of their own
CandidatePool ==
    { Publication("p1", D_ab, None, None, {}, <<>>, <<>>),
      Publication("p2", D_Ab, None, None, {}, <<Citer0>>, <<>>),
      Publication("p3", None, None, None, {}, <<>>, <<>>),
      Publication("p4", D_c, None, None, {}, <<>>, <<>>),
      Publication("p5", D_other, None, None, {}, <<>>, <<>>) }

NoKinds == [none |-> TRUE]

InitCitedBy ==
    /\ pubs \in SeqsUpTo(CandidatePool, MaxPubs)
    /\ cites \in SeqsUpTo(CitePool, MaxCites)
    /\ kinds = NoKinds
    /\ swindow = 0
    /\ enriched = [op |-> "none"]
    /\ IssnIdle /\ ParseIdle /\ StoreIdle /\ IdentIdle /\ LoadIdle /\ CommandIdle

AddCitedBy ==
    /\ enriched.op = "none"
    /\ enriched' = [op |-> "cited_by", out |-> add_cited_by(pubs, cites)]
    /\ UNCHANGED <<pubs, cites, kinds, swindow, issnVars, parseVars, storeVars, identVars, loadVars, command>>

NextCitedBy == AddCitedBy

SpecCitedBy == InitCitedBy /\ [][NextCitedBy]_vars

\* the citing publications, in the order of the citing sequence, whose
\* citation list contains the DOI
Citing(doi) ==
    SelectSeq(cites, LAMBDA c : \E j \in 1..Len(c.citations) : DOI_eq(c.citations[j], doi))

\* C6: every returned candidate's cited-by list is its previous cited-by list
\* followed by exactly the citing publications whose citation list contains
\* its DOI, each once and in the order of the citing sequence.
C6_CitedByIsPreviousPlusCiters ==
    enriched.op = "cited_by" =>
        \A k \in 1..Len(enriched.out) :
            \E i \in 1..Len(pubs) :
                /\ pubs[i].identifier = enriched.out[k].identifier
                /\ pubs[i].doi # None
                /\ enriched.out[k].cited_by = pubs[i].cited_by \o Citing(pubs[i].doi)

\* a previously cited candidate collected two different citers of its DOI
\* while a third citer, which does not cite it, was left out
C6_Witness ==
    /\ enriched.op = "cited_by"
    /\ \E k \in 1..Len(enriched.out) :
           /\ Len(enriched.out[k].cited_by) = 3
           /\ enriched.out[k].cited_by[2] # enriched.out[k].cited_by[3]
    /\ \E k \in 1..Len(enriched.out) : Len(enriched.out[k].cited_by) = 0
    /\ Len(cites) = 2

\* C7: no candidate without a DOI is returned by add_cited_by; every returned
\* publication is a candidate with a DOI, changed at most by a longer
\* cited-by list.
C7_NoCandidateWithoutDoi ==
    enriched.op = "cited_by" =>
        \A k \in 1..Len(enriched.out) :
            /\ enriched.out[k].doi # None
            /\ \E i \in 1..Len(pubs) :
                   /\ pubs[i].doi # None
                   /\ [enriched.out[k] EXCEPT !.cited_by = pubs[i].cited_by] = pubs[i]
                   /\ Len(enriched.out[k].cited_by) >= Len(pubs[i].cited_by)
                   /\ SubSeq(enriched.out[k].cited_by, 1, Len(pubs[i].cited_by)) = pubs[i].cited_by

\* a candidate list holding a publication without a DOI next to one with a
\* DOI, of which only the latter is returned
C7_Witness ==
    /\ enriched.op = "cited_by"
    /\ \E i \in 1..Len(pubs) : pubs[i].doi = None
    /\ Len(enriched.out) = 1
    /\ Len(pubs) = 2

-----------------------------------------------------------------------------
(* enrich.add_scores                                                       *)

\* a buggy test that never finds the score on the publication
carries_never(pub, score) == FALSE

\* `score in pub.journal.scores`
carries(pub, score) == \E p \in pub.scores : p[1] = score

\* a score map that holds the new entry only
new_scores_only(scores, score, value) == {<<score, value>>}

\* {**pub.journal.scores, score: value}
new_scores(scores, score, value) == {p \in scores : p[1] # score} \cup {<<score, value>>}

\* one pass of the body of `for pub in pubs` for the store `table` of `score`
add_scores_pub(pub, score, table, past) ==
    IF carries(pub, score) THEN Return(pub)
    ELSE LET id == IF pub.issn # None THEN pub.issn ELSE pub.eissn
         IN IF id = None THEN Return(pub)
            ELSE LET value == max_score_by_issn(score, TRUE, table,
                                                [str |-> FALSE, val |-> id], past)
                 IN IF ~value.ok THEN value
                    ELSE IF ~value.value.null
                         THEN Return([pub EXCEPT !.scores =
                                         new_scores(@, score, value.value.value)])
                    ELSE Return(pub)

RECURSIVE add_scores_pubs(_, _, _, _, _, _)
\* `result = []` followed by the loop `for pub in pubs`
add_scores_pubs(ps, score, table, past, i, result) ==
    IF i > Len(ps) THEN Return(result)
    ELSE LET r == add_scores_pub(ps[i], score, table, past)
         IN IF ~r.ok THEN r
            ELSE add_scores_pubs(ps, score, table, past, i + 1, Append(result, r.value))

Unbound == [bound |-> FALSE]

RECURSIVE add_scores_loop(_, _, _, _, _, _)
\* the loop `for score in scores` over the set in its iteration order; every
\* pass opens the store of its kind and starts from the argument `pubs`
add_scores_loop(ps, tables, past, order, j, result) ==
    IF j > Len(order)
    THEN IF result.bound THEN Return(result.value) ELSE Raise("UnboundLocalError")
    ELSE IF order[j] \notin Metrics THEN Raise("ValueError")
    ELSE LET r == add_scores_pubs(ps, order[j], tables[order[j]], past, 1, <<>>)
         IN IF ~r.ok THEN r
            ELSE add_scores_loop(ps, tables, past, order, j + 1,
                                 [bound |-> TRUE, value |-> r.value])

\* add_scores(pubs, dbfile, past=past, scores=scores)
add_scores(ps, exists, tables, past, scores) ==
    IF ~exists THEN Raise("FileNotFoundError")
    ELSE IF scores.none THEN Return(ps)
    ELSE add_scores_loop(ps, tables, past, scores.order, 1, Unbound)

-----------------------------------------------------------------------------
(* The scoring specification: add_scores against a fixed store file        *)

MaxKinds == 2

\* the members of the Score enumeration; JIF has no store
Score == {"JIF", "AIS", "RIS", "RIF"}

\* a set of score kinds in one of its iteration orders, or None
ScoreSets ==
    {NoKinds} \cup
    {[none |-> FALSE, order |-> o] : o \in
        {s \in SeqsUpTo(Score, MaxKinds) : \A a, b \in 1..Len(s) : a # b => s[a] # s[b]}}

RECURSIVE Load(_, _, _, _)
\* the table of metric m after inserting the <<year, record>> entries
Load(m, table, entries, i) ==
    IF i > Len(entries) THEN table
    ELSE Load(m, insert(m, TRUE, table, entries[i][1], <<entries[i][2]>>).table, entries, i + 1)

\* store files as earlier sessions can have left them
StoreFiles ==
    { [m \in Metrics |-> EmptyBag],
      [m \in Metrics |->
          IF m = "RIS" THEN Load(m, EmptyBag, <<<<2025, R_issn>>>>, 1)
          ELSE IF m = "RIF" THEN Load(m, EmptyBag, <<<<2024, R_both>>>>, 1)
          ELSE Load(m, EmptyBag,
                    << <<2025, [journal |-> T_A, issn |-> I_0006_808X, eissn |-> I_1234_5679,
                                score |-> 3, edition |-> T_SSCI, category |-> MATH]>> >>, 1)],
      [m \in Metrics |->
          IF m = "RIS" THEN Load(m, EmptyBag, <<<<2024, R_issn>>, <<2020, R_eissn>>>>, 1)
          ELSE EmptyBag] }

\* publications with and without identifiers and with scores attached
\* earlier; the last one carries an ISSN whose check digit is wrong
ScoredPool ==
    { Publication("p1", D_ab, I_1234_5679, None, {}, <<>>, <<>>),
      Publication("p2", D_c, None, I_1234_5679, {<<"RIS", 9>>}, <<>>, <<>>),
      Publication("p3", D_other, None, None, {}, <<>>, <<>>),
      Publication("p4", None, I_0378_5955, None, {<<"RIF", 9>>}, <<>>, <<>>),
      Publication("p5", None, I_0006_808X, I_1234_5679, {}, <<>>, <<>>),
      Publication("p6", None, I_1234_5678, None, {<<"RIS", 9>>}, <<>>, <<>>) }

InitScores ==
    /\ pubs \in SeqsUpTo(ScoredPool, MaxPubs)
    /\ cites = <<>>
    /\ kinds \in ScoreSets
    /\ swindow \in Pasts
    /\ enriched = [op |-> "none"]
    /\ conn = [m \in Metrics |-> FALSE]
    /\ disk \in StoreFiles
    /\ txn = [m \in Metrics |-> EmptyBag]
    /\ query = NoQuery
    /\ indexed = [m \in Metrics |-> TRUE]
    /\ IssnIdle /\ ParseIdle /\ IdentIdle /\ LoadIdle /\ CommandIdle

\* add_scores on the candidates; the sessions it opens only read the tables
AddScores(exists) ==
    /\ enriched.op = "none"
    /\ enriched' = [op |-> "scores", exists |-> exists,
                    out |-> add_scores(pubs, exists, disk, swindow, kinds)]
    /\ UNCHANGED <<pubs, cites, kinds, swindow, issnVars, parseVars, storeVars, identVars, loadVars, command>>

\* add_scores again, on the publications the first call returned
Rerun ==
    /\ enriched.op = "scores"
    /\ enriched.out.ok
    /\ enriched' = [op |-> "rerun", first |-> enriched.out.value,
                    out |-> add_scores(enriched.out.value, TRUE, disk, swindow, kinds)]
    /\ UNCHANGED <<pubs, cites, kinds, swindow, issnVars, parseVars, storeVars, identVars, loadVars, command>>

NextScores ==
    \/ \E exists \in BOOLEAN : AddScores(exists)
    \/ Rerun

SpecScores == InitScores /\ [][NextScores]_vars

\* the identifier add_scores looks a publication up by
LookupId(pub) == IF pub.issn # None THEN pub.issn ELSE pub.eissn

\* the store's answer for a kind and a publication's identifier
StoreMax(score, pub) ==
    max_score_by_issn(score, TRUE, disk[score], [str |-> FALSE, val |-> LookupId(pub)], swindow)

\* C4: add_scores with a set of several kinds attaches every requested kind K
\* to every publication that lacked K and whose ISSN (else eISSN) has a K
\* score in the store, with the store's maximum.
C4_EveryRequestedKindAttached ==
    (enriched.op = "scores" /\ enriched.out.ok /\ ~kinds.none) =>
        \A j \in 1..Len(kinds.order), i \in 1..Len(pubs) :
            LET K == kinds.order[j]
            IN ( /\ ~\E p \in pubs[i].scores : p[1] = K
                 /\ LookupId(pubs[i]) # None
                 /\ StoreMax(K, pubs[i]).ok
                 /\ ~StoreMax(K, pubs[i]).value.null )
               => <<K, StoreMax(K, pubs[i]).value.value>> \in enriched.out.value[i].scores

\* the single store-backed kind of a call, "" for any other call
SingleKind ==
    IF ~kinds.none /\ Len(kinds.order) = 1 /\ kinds.order[1] \in Metrics
    THEN kinds.order[1] ELSE ""

\* C5: for one store, kind and window, add_scores applied to its own result
\* returns that result again without error, and a publication that already
\* carries the kind comes back unchanged.
C5_AddScoresIdempotent ==
    SingleKind # "" =>
        /\ enriched.op = "rerun" =>
               (enriched.out.ok /\ enriched.out.value = enriched.first)
        /\ (enriched.op = "scores" /\ enriched.exists) =>
               /\ enriched.out.ok =>
                      \A i \in 1..Len(pubs) :
                          (\E p \in pubs[i].scores : p[1] = SingleKind)
                              => enriched.out.value[i] = pubs[i]
               /\ (\A i \in 1..Len(pubs) : \E p \in pubs[i].scores : p[1] = SingleKind)
                      => (enriched.out.ok /\ enriched.out.value = pubs)

\* a second run over a result in which the first run attached a score to one
\* publication and met another one that carried the kind already
C5_Witness ==
    /\ SingleKind # ""
    /\ enriched.op = "rerun"
    /\ \E i \in 1..Len(pubs) :
           /\ enriched.first[i] # pubs[i]
           /\ \E p \in enriched.first[i].scores : p[1] = SingleKind
    /\ \E i \in 1..Len(pubs) : <<SingleKind, 9>> \in pubs[i].scores

-----------------------------------------------------------------------------
(* The ISSN text specification: ISSN.from_string, then is_valid             *)

IssnHeads == {<<"1", "2", "3", "4">>, <<"1", "2", "3">>, <<"1", "2", "3", "4", "5">>, <<"A", "B", "C", "D">>, <<"0", "0", "0", "6">>, <<"1", "2", "-", "4">>}

IssnDashes == {<<"-">>, <<>>}

IssnTails == {<<"5", "6", "7", "9">>, <<"5", "6", "7", "8">>, <<"5", "6", "7">>, <<"5", "6", "7", "8", "9">>, <<"8", "0", "8", "X">>, <<"8", "0", "8", "x">>, <<"5", "6", "7", "A">>, <<"-", "5", "6", "7">>}

\* texts with and without a dash, of length 9 and of other lengths, with
\* digits and with other characters
IssnTexts == {h \o d \o l : h \in IssnHeads, d \in IssnDashes, l \in IssnTails}

InitIssnText ==
    /\ input \in {<<s>> : s \in IssnTexts}
    /\ ident = [op |-> "none"]
    /\ IssnIdle /\ ParseIdle /\ StoreIdle /\ EnrichIdle /\ LoadIdle /\ CommandIdle

\* ISSN.from_string(text)
FromString ==
    /\ ident.op = "none"
    /\ ident' = [op |-> "ISSN.from_string", out |-> ISSN_from_string(input[1])]
    /\ UNCHANGED <<input, issnVars, parseVars, storeVars, enrichVars, loadVars, command>>

\* is_valid on the ISSN that from_string returned
IsValidParsed ==
    /\ ident.op = "ISSN.from_string"
    /\ ident.out.ok
    /\ ~valid.called
    /\ issn' = ident.out.value
    /\ valid' = [called |-> TRUE, result |-> ISSN_is_valid(ident.out.value)]
    /\ UNCHANGED <<identVars, parseVars, storeVars, enrichVars, loadVars, command>>

NextIssnText == FromString \/ IsValidParsed

SpecIssnText == InitIssnText /\ [][NextIssnText]_vars

\* the NNNN-NNNC shape: four digits, a dash, three digits, a digit or X
Shape(s) ==
    /\ Len(s) = 9
    /\ \A k \in 1..4 : s[k] \in Digits
    /\ s[5] = "-"
    /\ \A k \in 6..8 : s[k] \in Digits
    /\ s[9] \in Digits \cup {"X"}

\* nine characters of which the fifth is the first dash
Layout(s) ==
    /\ Len(s) = 9
    /\ s[5] = "-"
    /\ \A k \in 1..4 : s[k] # "-"

\* C11 as stated: ISSN.from_string raises a format error for every string
\* that violates the NNNN-NNNC shape, and accepts every string of that shape
\* whatever its check character.
C11_FormatErrorForEveryBadShape ==
    ident.op = "ISSN.from_string" => (ident.out.ok <=> Shape(input[1]))

\* C11 as amended: ISSN.from_string raises a format error exactly for the
\* strings that are not nine characters with the first dash in fifth place;
\* every string of that layout is returned as its two four-character parts,
\* a string of the NNNN-NNNC shape is never a format error, and a returned
\* string that violates the shape has is_valid false.
C11_FormatErrorIsLayoutOnly ==
    ident.op = "ISSN.from_string" =>
        /\ ident.out.ok <=> Layout(input[1])
        /\ ident.out.ok =>
               ident.out.value = <<SubSeq(input[1], 1, 4), SubSeq(input[1], 6, 9)>>
        /\ Shape(input[1]) => ident.out.ok
        /\ (valid.called /\ valid.result) => Shape(input[1])

\* a string with letters in the place of digits was returned by from_string
\* and only is_valid reported it
C11_Witness ==
    /\ ident.op = "ISSN.from_string"
    /\ ident.out.ok
    /\ ~Shape(input[1])
    /\ valid.called /\ ~valid.result

-----------------------------------------------------------------------------
(* DOI.from_string, and the comparison, hash and string form of DOIs        *)

\* the number of occurrences of a character
CountOf(s, c) == Cardinality({k \in 1..Len(s) : s[k] = c})

\* a slip in DOI.from_string: the suffix is stored as written
DOI_from_string_raw(doi) ==
    IF ~Contains(doi, "/") THEN Raise("ValueError")
    ELSE LET prefix == SplitHead(doi, "/")
             suffix == SplitRest(doi, "/")
         IN  IF ~Contains(prefix, ".") THEN Raise("ValueError")
             ELSE IF CountOf(prefix, ".") # 1 THEN Raise("ValueError")
             ELSE LET namespace == SplitHead(prefix, ".")
                      registrant == SplitRest(prefix, ".")
                  IN  IF ~(namespace = T_10 /\ Len(registrant) = 4 /\ AllDigits(registrant))
                      THEN Raise("ValueError")
                      ELSE Return(<<namespace, registrant, suffix>>)

\* DOI.from_string; `namespace, registrant = prefix.split(".")` raises
\* ValueError unless the prefix holds exactly one dot
DOI_from_string(doi) ==
    IF ~Contains(doi, "/") THEN Raise("ValueError")
    ELSE LET prefix == SplitHead(doi, "/")
             suffix == SplitRest(doi, "/")
         IN  IF ~Contains(prefix, ".") THEN Raise("ValueError")
             ELSE IF CountOf(prefix, ".") # 1 THEN Raise("ValueError")
             ELSE LET namespace == SplitHead(prefix, ".")
                      registrant == SplitRest(prefix, ".")
                  IN  IF ~(namespace = T_10 /\ Len(registrant) = 4 /\ AllDigits(registrant))
                      THEN Raise("ValueError")
                      ELSE Return(<<namespace, registrant, lowercase_ascii(suffix)>>)

\* DOI.__hash__: the hashed tuple
DOI_hash(d) == <<d[1], d[2], lowercase_ascii(d[3])>>

\* DOI.__str__
DOI_str(d) == d[1] \o <<".">> \o d[2] \o <<"/">> \o d[3]

\* DOI texts: two registrants with suffixes that differ in case, in an
\* accented letter and in content, and texts from_string rejects
DoiTexts == {<<"1", "0", ".", "1", "0", "0", "0", "/", "A", "B">>, <<"1", "0", ".", "1", "0", "0", "0", "/", "a", "b">>, <<"1", "0", ".", "1", "0", "0", "0", "/", "a", "B">>, <<"1", "0", ".", "1", "0", "0", "0", "/", "a", "/", "B">>, <<"1", "0", ".", "1", "0", "0", "0", "/", "a", "c">>, <<"1", "0", ".", "1", "0", "0", "0", "/", "É">>, <<"1", "0", ".", "1", "0", "0", "0", "/", "é">>, <<"1", "0", ".", "1", "2", "3", "4", "/", "A", "B">>, <<"1", "0", ".", "1", "2", "3", "4", "/", "a", "b">>, <<"1", "0", ".", "1", "2", "3", "4", "/", "a", "B">>, <<"1", "0", ".", "1", "2", "3", "4", "/", "a", "/", "B">>, <<"1", "0", ".", "1", "2", "3", "4", "/", "a", "c">>, <<"1", "0", ".", "1", "2", "3", "4", "/", "É">>, <<"1", "0", ".", "1", "2", "3", "4", "/", "é">>, <<"1", "1", ".", "1", "0", "0", "0", "/", "a", "b">>, <<"1", "0", ".", "1", "2", "a", "4", "/", "a", "b">>, <<"1", "0", ".", "1", "2", "3", "/", "a", "b">>, <<"1", "0", "1", "0", "0", "0", "/", "a", "b">>, <<"1", "0", ".", "1", "0", ".", "0", "0", "/", "a", "b">>, <<"1", "0", ".", "1", "0", "0", "0", "a", "b">>, <<"1", "0", ".", "1", "2", "3", "4", "a", "b">>}

InitDoi ==
    /\ input \in {<<a, b>> : a \in DoiTexts, b \in DoiTexts}
    /\ ident = [op |-> "none"]
    /\ IssnIdle /\ ParseIdle /\ StoreIdle /\ EnrichIdle /\ LoadIdle /\ CommandIdle

\* DOI.from_string on both texts
ParseDois ==
    /\ ident.op = "none"
    /\ ident' = [op |-> "DOI.from_string",
                 out |-> <<DOI_from_string(input[1]), DOI_from_string(input[2])>>]
    /\ UNCHANGED <<input, issnVars, parseVars, storeVars, enrichVars, loadVars, command>>

\* a == b, hash(a) == hash(b) and str(a) == str(b) on the two parsed DOIs
CompareDois ==
    /\ ident.op = "DOI.from_string"
    /\ ident.out[1].ok /\ ident.out[2].ok
    /\ LET a == ident.out[1].value
           b == ident.out[2].value
       IN ident' = [op |-> "DOI.compare", out |-> ident.out,
                    eq |-> DOI_eq(a, b),
                    hash |-> (DOI_hash(a) = DOI_hash(b)),
                    str |-> (DOI_str(a) = DOI_str(b))]
    /\ UNCHANGED <<input, issnVars, parseVars, storeVars, enrichVars, loadVars, command>>

NextDoi == ParseDois \/ CompareDois

SpecDoi == InitDoi /\ [][NextDoi]_vars

\* the two texts agree on the prefix before the first slash and, after
\* lowercasing the letters A-Z, on the suffix behind it
SameDoiText(a, b) ==
    /\ SplitHead(a, "/") = SplitHead(b, "/")
    /\ Len(SplitRest(a, "/")) = Len(SplitRest(b, "/"))
    /\ \A k \in 1..Len(SplitRest(a, "/")) :
           LET x == SplitRest(a, "/")[k]
               y == SplitRest(b, "/")[k]
           IN  \/ x = y
               \/ \E n \in 1..26 : {x, y} = {UpperLetters[n], LowerLetters[n]}

\* C12: two strings accepted by DOI.from_string give DOIs that are equal,
\* have equal hashes and have identical string forms exactly when their
\* prefixes are identical and their suffixes are identical up to the case of
\* the ASCII letters.
C12_DoiEqualityIsCaseInsensitiveSuffix ==
    ident.op = "DOI.compare" =>
        /\ ident.eq <=> SameDoiText(input[1], input[2])
        /\ ident.hash <=> SameDoiText(input[1], input[2])
        /\ ident.str <=> SameDoiText(input[1], input[2])

\* two different texts of one DOI compared equal while, in other runs, a
\* differing registrant or a differing accented letter keeps DOIs apart
C12_Witness ==
    /\ ident.op = "DOI.compare"
    /\ input[1] # input[2]
    /\ ident.eq /\ ident.hash /\ ident.str

-----------------------------------------------------------------------------
(* Claims on the session scope and on the key of the tables                 *)

\* C13: every exit from a session scope, after a normal end of the body or
\* with its exception, leaves the index created, the pending rows committed
\* and the store disconnected; insert, find_by_issn and max_score_by_issn
\* outside a scope raise and leave the tables alone.
C13_ScopeReleasedOnEveryExit ==
    /\ [](query.op = "exit" =>
             /\ indexed[query.m]
             /\ disk[query.m] = query.pending
             /\ ~conn[query.m])
    /\ []((query.op \in {"insert", "max", "find"} /\ ~query.connected) =>
             /\ ~query.out.ok
             /\ txn[query.m] = disk[query.m])
    /\ [][\A m \in Metrics : ~conn[m] => disk'[m] = disk[m]]_vars

\* a scope left by an exception with an inserted row pending, which is
\* committed
C13_Witness ==
    /\ query.op = "exit"
    /\ query.raised
    /\ query.pending # EmptyBag
    /\ disk[query.m] = query.pending

\* the rows of a table that share the key of row r (NULL standing for an
\* absent ISSN or eISSN)
SameKey(m, r, x) ==
    /\ x.year = r.year
    /\ x.issn = r.issn
    /\ x.eissn = r.eissn
    /\ m = "AIS" => (x.edition = r.edition /\ x.category = r.category)

\* C15: a table never holds two rows with the same (year, issn, eissn) key
\* (plus edition and category for AIS), also when the ISSN or the eISSN of
\* the key is absent; the insert of such a row fails with the constraint
\* error of the storage, which insert lets through.
C15_NoTwoRowsWithOneKey ==
    /\ \A m \in Metrics :
           \A r \in BagToSet(txn[m]) :
               /\ CopiesIn(r, txn[m]) = 1
               /\ \A x \in BagToSet(txn[m]) : SameKey(m, r, x) => x = r
    /\ (query.op = "insert" /\ query.connected /\ ~query.out.ok) =>
           query.out.exc = "IntegrityError"

-----------------------------------------------------------------------------
(* The lookup specification: point and window lookups on given store files  *)

\* texts and ISSN values handed to the lookups: stored and never stored,
\* with a wrong check character, and not of the form of an ISSN
LookupIds ==
    { [str |-> TRUE, val |-> T_1234_5679],
      [str |-> FALSE, val |-> I_0006_808X],
      [str |-> TRUE, val |-> T_0378_5955],
      [str |-> TRUE, val |-> T_1234_5678],
      [str |-> FALSE, val |-> I_1234_5678],
      [str |-> TRUE, val |-> T_0006_808x],
      [str |-> TRUE, val |-> T_12345678] }

InitLookup ==
    /\ conn = [m \in Metrics |-> FALSE]
    /\ disk \in StoreFiles
    /\ txn = disk
    /\ query = NoQuery
    /\ indexed = [m \in Metrics |-> TRUE]
    /\ IssnIdle /\ ParseIdle /\ EnrichIdle /\ IdentIdle /\ LoadIdle /\ CommandIdle

NextLookup ==
    \/ \E m \in Metrics : Enter(m)
    \/ \E m \in Metrics, raised \in BOOLEAN : Exit(m, raised)
    \/ \E m \in Metrics, id \in LookupIds, past \in Pasts : MaxScore(m, id, past)
    \/ \E m \in Metrics, id \in LookupIds, year \in FindYears : FindByIssn(m, id, year)

SpecLookup == InitLookup /\ [][NextLookup]_vars

\* the text of an identifier: the string itself, or the parts of the ISSN
\* value around a dash
WrittenId(id) == IF id.str THEN id.val ELSE id.val[1] \o <<"-">> \o id.val[2]

\* a text of the NNNN-NNNC shape whose weighted digit sum, check character
\* included, is divisible by 11
WellFormedAndChecked(s) ==
    /\ Shape(s)
    /\ (8 * DigitVal(s[1]) + 7 * DigitVal(s[2]) + 6 * DigitVal(s[3]) + 5 * DigitVal(s[4])
          + 4 * DigitVal(s[6]) + 3 * DigitVal(s[7]) + 2 * DigitVal(s[8])
          + CheckValue(s[9])) % 11 = 0

\* C16: find_by_issn and max_score_by_issn raise for an identifier that is
\* malformed or fails the ISSN checksum, and never return None for it.
C16_InvalidIdentifierRaises ==
    (query.op \in {"max", "find"} /\ ~WellFormedAndChecked(WrittenId(query.id))) =>
        ~query.out.ok

\* a lookup on an open store with an identifier whose check character is
\* wrong raised
C16_Witness ==
    /\ query.op = "find"
    /\ query.connected
    /\ query.year \in UEFISCDI_DATABASE_URL
    /\ Shape(WrittenId(query.id))
    /\ ~WellFormedAndChecked(WrittenId(query.id))
    /\ ~query.out.ok

-----------------------------------------------------------------------------
(* download_file and the download specification                             *)

\* a file holding the given data
File(data) == [exists |-> TRUE, data |-> data]

\* what the network does with one GET: it fails to connect; or it answers
\* with an error status; or it delivers the chunks `sent`, all of them
\* ("ok") or until the transfer breaks ("ReadError")
Net(kind, sent) == [kind |-> kind, sent |-> sent]

\* download_file without the removal of the file in the except clause
download_file_keep(file, force, net) ==
    IF ~force /\ file.exists THEN [out |-> Return(None), file |-> file]
    ELSE IF net.kind = "ConnectError"
         THEN [out |-> Raise("DownloadError"), file |-> File(<<>>)]
    ELSE IF net.kind = "HTTPStatusError"
         THEN [out |-> Raise("HTTPStatusError"), file |-> File(<<>>)]
    ELSE IF net.kind = "ReadError"
         THEN [out |-> Raise("ReadError"), file |-> File(net.sent)]
    ELSE [out |-> Return(None), file |-> File(net.sent)]

\* download_file(url, filename, force=force): the outcome of the call and the
\* file it leaves at `filename`.  open(filename, "wb") creates or truncates
\* the file before the request is made; only httpx.ConnectError is caught.
download_file(file, force, net) ==
    IF ~force /\ file.exists THEN [out |-> Return(None), file |-> file]
    ELSE IF net.kind = "ConnectError"
         THEN [out |-> Raise("DownloadError"), file |-> NoFile]
    ELSE IF net.kind = "HTTPStatusError"
         THEN [out |-> Raise("HTTPStatusError"), file |-> File(<<>>)]
    ELSE IF net.kind = "ReadError"
         THEN [out |-> Raise("ReadError"), file |-> File(net.sent)]
    ELSE [out |-> Return(None), file |-> File(net.sent)]

MaxChunks == 2

Chunks == {"a", "b"}

\* the answers of the network: no connection, an error status, a transfer
\* that breaks after some chunks, a complete transfer
Nets ==
    {Net("ConnectError", <<>>), Net("HTTPStatusError", <<>>)}
        \cup {Net(k, s) : k \in {"ok", "ReadError"}, s \in SeqsUpTo(Chunks, MaxChunks)}

InitDownload ==
    /\ cache = NoFile
    /\ fetched = [op |-> "none"]
    /\ IssnIdle /\ ParseIdle /\ StoreIdle /\ EnrichIdle /\ IdentIdle /\ CommandIdle

\* download_file(url, filename, force=force)
Download(force, net) ==
    /\ LET r == download_file(cache, force, net)
       IN  /\ cache' = r.file
           /\ fetched' = [op |-> "download", force |-> force, net |-> net,
                          existed |-> cache.exists, out |-> r.out]
    /\ UNCHANGED <<issnVars, parseVars, storeVars, enrichVars, identVars, command>>

NextDownload == \E force \in BOOLEAN, net \in Nets : Download(force, net)

SpecDownload == InitDownload /\ [][NextDownload]_vars

\* C20: when download_file meets a connection failure it raises
\* DownloadError and no file is left at the destination, whether the
\* destination was absent before the call or existed and force was true.
C20_ConnectionFailureLeavesNoFile ==
    (/\ fetched.op = "download"
     /\ fetched.net.kind = "ConnectError"
     /\ ~fetched.existed \/ fetched.force) =>
        /\ fetched.out = Raise("DownloadError")
        /\ ~cache.exists

\* a forced download over an existing file that failed to connect
C20_Witness ==
    /\ fetched.op = "download"
    /\ fetched.net.kind = "ConnectError"
    /\ fetched.existed /\ fetched.force
    /\ fetched.out = Raise("DownloadError")
    /\ ~cache.exists

-----------------------------------------------------------------------------
(* The bulk loads store_relative_influence_score,                           *)
(* store_relative_impact_factor and store_article_influence_score           *)

\* parse_relative_influence_score / parse_relative_impact_factor /
\* parse_article_influence_score on the worksheet of a year
parse_scores(m, rows, year) ==
    IF m = "RIS" THEN parse_relative_influence_score(rows, year)
    ELSE IF m = "RIF" THEN parse_relative_impact_factor(rows, year)
    ELSE parse_article_influence_score(rows, year)

\* db.insert(year, scores), the last statement of the loop body
store_year_insert(scores, r) ==
    IF r.ok THEN [ok |-> TRUE, table |-> r.table, scores |-> scores]
    ELSE [ok |-> FALSE, exc |-> r.exc, table |-> r.table, scores |-> <<>>]

\* the loop body after scores = parse_*(xlsxfile, year)
store_year_parsed(m, table, year, scores) ==
    IF ~scores.ok THEN [ok |-> FALSE, exc |-> scores.exc, table |-> table, scores |-> <<>>]
    ELSE store_year_insert(scores.value, insert(m, TRUE, table, year, scores.value))

\* the loop body after download_file(url, xlsxfile, force=force)
store_year_downloaded(m, table, year, d) ==
    IF ~d.out.ok THEN [ok |-> FALSE, exc |-> d.out.exc, table |-> table, scores |-> <<>>]
    ELSE store_year_parsed(m, table, year, parse_scores(m, d.file.data, year))

\* the body of the loop for one year: download, parse, insert.  `src` is the
\* cached spreadsheet of the year and what the network answers.
store_year(m, table, year, src, force) ==
    store_year_downloaded(m, table, year, download_file(src.file, force, src.net))

MaxYears == 2

MaxLoaded == 2

\* a supported year with the default layout, one with the 2025 layout, and
\* an unsupported year
BulkYears == {2019, 2024, 2025}

\* a data row of the worksheet of metric m in the layout of year v
BulkRow(m, v, j, i, s) ==
    IF m = "AIS" THEN AISRow(v, j, i, T_NA, T_MATH, T_SCIE, s)
    ELSE ScoreRow(v, j, i, T_NA, s)

\* a row with a column too few
ShortRow(m, v) ==
    [k \in 1..((IF m = "AIS" THEN AISColumns(v) ELSE ScoreColumns(v)) - 1) |-> Cell(T_1)]

\* the spreadsheet of a year (one data row at most): absent and not
\* reachable; downloaded whole, well-formed or with a malformed second row;
\* cached from an earlier run while the network is down; a transfer that
\* breaks
BulkSources(m, v) ==
    { [file |-> NoFile, net |-> Net("ConnectError", <<>>)],
      [file |-> NoFile, net |-> Net("ok", <<BulkRow(m, v, T_A, T_1234_5679, T_1)>>)],
      [file |-> NoFile,
       net |-> Net("ok", <<BulkRow(m, v, T_A, T_1234_5679, T_1), ShortRow(m, v)>>)],
      [file |-> File(<<BulkRow(m, v, T_B, T_0378_5955, T_2)>>),
       net |-> Net("ConnectError", <<>>)],
      [file |-> NoFile, net |-> Net("ReadError", <<BulkRow(m, v, T_A, T_1234_5679, T_1)>>)] }

\* the `years` argument in the order the set is iterated
BulkYearSeqs ==
    {ys \in SeqsUpTo(BulkYears, MaxYears) : \A i, j \in 1..Len(ys) : ys[i] = ys[j] => i = j}

InitBulk ==
    /\ conn = [m \in Metrics |-> FALSE]
    /\ disk = [m \in Metrics |-> EmptyBag]
    /\ txn = disk
    /\ query = NoQuery
    /\ indexed = [m \in Metrics |-> FALSE]
    /\ IssnIdle /\ ParseIdle /\ EnrichIdle /\ IdentIdle /\ LoadIdle /\ CommandIdle

\* the record of a finished bulk load
Finished(load, failed, out) ==
    [op |-> "store", m |-> load.m, years |-> load.years, force |-> load.force,
     before |-> load.before, done |-> load.done, failed |-> failed, out |-> out]

\* store_*(filename, years=years, force=force) up to the loop: the check of
\* the years, then the session is entered.  Without years the session ends
\* at once.
StoreBegin(m, years, force) ==
    LET load == [op |-> "loading", m |-> m, years |-> years, force |-> force,
                 before |-> disk[m], done |-> <<>>]
    IN  IF \E i \in 1..Len(years) : years[i] \notin UEFISCDI_DATABASE_URL
        THEN /\ query' = Finished(load, 0, Raise("ValueError"))
             /\ UNCHANGED <<conn, disk, txn, indexed>>
        ELSE IF years = <<>>
        THEN /\ query' = Finished(load, 0, Return(None))
             /\ indexed' = [indexed EXCEPT ![m] = TRUE]
             /\ UNCHANGED <<conn, disk, txn>>
        ELSE /\ query' = load
             /\ conn' = [conn EXCEPT ![m] = TRUE]
             /\ txn' = [txn EXCEPT ![m] = disk[m]]
             /\ UNCHANGED <<disk, indexed>>

\* a bulk load on a file of its own: the three loads write three files, a
\* behaviour follows one of them
BeginLoad(m, years, force) ==
    /\ query.op # "loading"
    /\ \A k \in Metrics : ~conn[k]
    /\ \A k \in Metrics \ {m} : disk[k] = EmptyBag
    /\ BagCardinality(disk[m]) + Len(years) <= MaxLoaded
    /\ StoreBegin(m, years, force)
    /\ UNCHANGED <<issnVars, parseVars, enrichVars, identVars, loadVars, command>>

\* the end of a pass with outcome r: the next pass, or the session is left
LoadYearEnd(m, i, r) ==
    /\ txn' = [txn EXCEPT ![m] = r.table]
    /\ IF r.ok /\ i < Len(query.years)
       THEN /\ query' = [query EXCEPT !.done = Append(@, r.scores)]
            /\ UNCHANGED <<conn, disk, indexed>>
       ELSE /\ query' = IF r.ok
                        THEN Finished([query EXCEPT !.done = Append(@, r.scores)], 0,
                                      Return(None))
                        ELSE Finished(query, i, Raise(r.exc))
            /\ disk' = [disk EXCEPT ![m] = Database_exit(disk[m], r.table, ~r.ok)]
            /\ indexed' = [indexed EXCEPT ![m] = TRUE]
            /\ conn' = [conn EXCEPT ![m] = FALSE]

\* one pass of `for i, year in enumerate(years)`; the session is left when
\* the pass raises and after the last pass
LoadYear(src) ==
    /\ query.op = "loading"
    /\ src \in BulkSources(query.m, query.years[Len(query.done) + 1])
    /\ \E r \in {store_year(query.m, txn[query.m], query.years[Len(query.done) + 1],
                             src, query.force)} :
           LoadYearEnd(query.m, Len(query.done) + 1, r)
    /\ UNCHANGED <<issnVars, parseVars, enrichVars, identVars, loadVars, command>>

NextBulk ==
    \/ \E m \in Metrics, force \in BOOLEAN, years \in BulkYearSeqs : BeginLoad(m, years, force)
    \/ \E m \in Metrics, v \in BulkYears : \E src \in BulkSources(m, v) : LoadYear(src)
    \/ \E m \in Metrics : query.op # "loading" /\ Enter(m)
    \/ \E m \in Metrics : query.op # "loading" /\ Exit(m, FALSE)
    \/ \E m \in Metrics, year \in {2024, UEFISCDI_LATEST_YEAR} :
           /\ query.op # "loading" /\ conn[m]
           /\ FindByIssn(m, [str |-> TRUE, val |-> T_1234_5679], year)

SpecBulk == InitBulk /\ [][NextBulk]_vars

RECURSIVE SumLen(_, _)
\* the number of records in the first k entries of a sequence of sequences
SumLen(seqs, k) == IF k = 0 THEN 0 ELSE SumLen(seqs, k - 1) + Len(seqs[k])

\* C14: when a bulk load fails while downloading or parsing a year, the rows
\* of the years inserted before it are committed and read by a session that
\* reopens the file, the failing year contributes no rows, the rows the
\* file held are kept, and the error reaches the caller.
C14_FailedLoadKeepsEarlierYears ==
    /\ \A m \in Metrics : (conn[m] /\ query.op # "loading") => txn[m] = disk[m]
    /\ (/\ query.op = "store"
        /\ ~query.out.ok
        /\ query.out.exc \in {"DownloadError", "HTTPStatusError", "ReadError", "ParsingError"}) =>
           LET m == query.m
               k == query.failed
               early == {query.years[j] : j \in 1..(k - 1)}
           IN  /\ k \in 1..Len(query.years)
               /\ Len(query.done) = k - 1
               /\ query.before \sqsubseteq disk[m]
               /\ BagCardinality(disk[m])
                      = BagCardinality(query.before) + SumLen(query.done, k - 1)
               /\ \A r \in BagToSet(disk[m]) :
                      r.year \notin early => CopiesIn(r, disk[m]) = CopiesIn(r, query.before)
               /\ \A j \in 1..(k - 1) : \A s \in 1..Len(query.done[j]) :
                      \E r \in BagToSet(disk[m]) :
                          /\ r.year = query.years[j]
                          /\ r.journal = query.done[j][s].journal
                          /\ r.score = query.done[j][s].score
               /\ ~conn[m]

\* a load whose second year fails to parse after the row of the first year
\* was inserted
C14_Witness ==
    /\ query.op = "store"
    /\ query.failed = 2
    /\ query.out = Raise("ParsingError")
    /\ Len(query.done[1]) = 1
    /\ BagCardinality(disk[query.m]) = BagCardinality(query.before) + 1

-----------------------------------------------------------------------------
(* Claims on lookups that find nothing                                      *)

\* the rows of the store of kind K that carry the publication's identifier
\* and whose year is one of the n trailing years
RowsInWindow(K, pub, n) ==
    {r \in BagToSet(disk[K]) :
        /\ r.issn = ISSN_str(LookupId(pub)) \/ r.eissn = ISSN_str(LookupId(pub))
        /\ r.year \in Window(n)}

\* a call of add_scores on an existing file with store-backed kinds and
\* publications whose identifiers, where present, are valid ISSNs
PlainCall ==
    /\ enriched.op = "scores"
    /\ enriched.exists
    /\ ~kinds.none
    /\ kinds.order # <<>>
    /\ \A j \in 1..Len(kinds.order) : kinds.order[j] \in Metrics
    /\ \A i \in 1..Len(pubs) : LookupId(pubs[i]) # None => ISSN_is_valid(LookupId(pubs[i]))

\* C17: a lookup miss is not an error: add_scores raises nothing, and a
\* publication without ISSN and eISSN, or for whose identifier the store holds
\* no score in the window, is returned with its score map unchanged.
C17_LookupMissLeavesPublication ==
    PlainCall =>
        /\ enriched.out.ok
        /\ \A i \in 1..Len(pubs) :
               (\/ LookupId(pubs[i]) = None
                \/ \A j \in 1..Len(kinds.order) :
                       RowsInWindow(kinds.order[j], pubs[i], swindow) = {})
                   => enriched.out.value[i] = pubs[i]

-----------------------------------------------------------------------------
(* Claims on the AIS records and on the end of the data                     *)

\* ArticleInfluenceScore.__eq__ on two records
AisEqual(a, b) == a.issn = b.issn /\ a.eissn = b.eissn /\ a.edition = b.edition

\* C18: the result of the AIS parser never holds two records that compare
\* equal (same ISSN, eISSN and edition), and rows that share the three
\* fields collapse to one record with the higher score, whatever their
\* subject categories.
C18_AisOneRecordPerEquality ==
    (metric = "AIS" /\ parsed.ok) =>
        LET res == parsed.value
            rows == DataScores
        IN  /\ \A k, l \in 1..Len(res) : AisEqual(res[k], res[l]) => k = l
            /\ \A k \in 1..Len(res) :
                   res[k].score =
                       Max({rows[i].score : i \in {j \in 1..Len(rows) : AisEqual(rows[j], res[k])}})

\* is the last expected column of the row structurally empty
LastExpectedIsEmpty(row) ==
    /\ Len(row) >= ExpectedColumns(metric, version)
    /\ row[ExpectedColumns(metric, version)].empty

\* the first row of the sheet whose last expected column is structurally
\* empty, 0 when there is none
FirstEmptyExpected ==
    IF \E i \in 1..Len(sheet) : LastExpectedIsEmpty(sheet[i])
    THEN CHOOSE i \in 1..Len(sheet) :
             LastExpectedIsEmpty(sheet[i]) /\ \A j \in 1..(i - 1) : ~LastExpectedIsEmpty(sheet[j])
    ELSE 0

\* a row of the expected column count whose last column is structurally empty
IsTerminal(row) == Len(row) = ExpectedColumns(metric, version) /\ LastIsEmpty(row)

\* the first such row, 0 when there is none
FirstTerminal ==
    IF \E i \in 1..Len(sheet) : IsTerminal(sheet[i])
    THEN CHOOSE i \in 1..Len(sheet) :
             IsTerminal(sheet[i]) /\ \A j \in 1..(i - 1) : ~IsTerminal(sheet[j])
    ELSE 0

\* a data row the parser of the call accepts: of the expected column count,
\* converted to a record, and that record valid
Accepted(row) ==
    /\ Len(row) = ExpectedColumns(metric, version)
    /\ RowOutcome(metric, version, row).ok
    /\ ~RowOutcome(metric, version, row).end
    /\ IF metric = "RIS"
       THEN RelativeInfluenceScore_is_valid(RowOutcome(metric, version, row).value)
       ELSE Score_is_valid(RowOutcome(metric, version, row).value)

\* the call returned the records of the rows before row t and nothing else
ReturnsRowsBefore(t) ==
    /\ parsed.ok
    /\ \A k \in 1..Len(parsed.value) : \E i \in 1..(t - 1) :
           parsed.value[k] = RowOutcome(metric, version, sheet[i]).value
    /\ \A i \in 1..(t - 1) : \E k \in 1..Len(parsed.value) :
           Pair(parsed.value[k]) = Pair(RowOutcome(metric, version, sheet[i]).value)

\* C19 as stated: the scan ends without error at the first row whose last
\* expected column is structurally empty; the records collected before it
\* are returned, the row itself never raises and no row after it is examined.
C19_ScanEndsAtEmptyLastColumn ==
    (/\ metric # "none"
     /\ FirstEmptyExpected > 0
     /\ \A j \in 1..(FirstEmptyExpected - 1) : Accepted(sheet[j])) =>
        ReturnsRowsBefore(FirstEmptyExpected)

\* C19: the scan ends without error at the first row of the expected column
\* count whose last column is structurally empty: the records collected
\* before it are returned and no row after it is examined, whatever its
\* content or column count.  The column count is tested first: a row of
\* another column count that the scan reaches raises a parsing error, also
\* when its last expected column is structurally empty.
C19_ScanEndsAtTerminalRow ==
    metric # "none" =>
        /\ (/\ FirstTerminal > 0
            /\ \A j \in 1..(FirstTerminal - 1) : Accepted(sheet[j])) =>
               ReturnsRowsBefore(FirstTerminal)
        /\ \A i \in 1..Len(sheet) :
               (/\ Len(sheet[i]) # ExpectedColumns(metric, version)
                /\ \A j \in 1..(i - 1) : ~IsTerminal(sheet[j]))
                   => (~parsed.ok /\ parsed.exc = "ParsingError")

\* a scan that returned the record of its first row, ended at the second
\* row, and left a malformed third row unread
C19_Witness ==
    /\ metric # "none"
    /\ Len(sheet) = 3
    /\ FirstTerminal = 2
    /\ ~Accepted(sheet[3]) /\ ~IsTerminal(sheet[3])
    /\ parsed.ok
    /\ Len(parsed.value) = 1

-----------------------------------------------------------------------------
(* The `download` command of __main__.py                                    *)

\* ScholarlyError and its subclasses (utils.py)
ScholarlyError == {"ScholarlyError", "ParsingError", "DownloadError"}

\* a database file without rows
NoTables == [m \in Metrics |-> EmptyBag]

NoIndex == [m \in Metrics |-> FALSE]

RECURSIVE Ascending(_)
Ascending(S) ==
    IF S = {} THEN <<>>
    ELSE LET x == CHOOSE y \in S : \A z \in S : y <= z
         IN  <<x>> \o Ascending(S \ {x})

Reversed(s) == [i \in 1..Len(s) |-> s[Len(s) + 1 - i]]

\* set(UEFISCDI_DATABASE_URL), the default of `years`, in the orders the
\* loop may iterate it
YearOrders == {Ascending(UEFISCDI_DATABASE_URL), Reversed(Ascending(UEFISCDI_DATABASE_URL))}

\* the spreadsheet of a year as the command finds it: not in the cache
\* directory
CommandSources(m, v) == {src \in BulkSources(m, v) : ~src.file.exists}

\* the database file an earlier run left behind
OldTables ==
    {NoTables, [NoTables EXCEPT !["RIS"] = DB_insert(TRUE, EmptyBag, 2024, <<R_issn>>).table]}

\* the step after the bulk load of metric m
NextStep(m) == IF m = "RIS" THEN "RIF" ELSE IF m = "RIF" THEN "AIS" ELSE "done"

InitCommand ==
    /\ \E force \in BOOLEAN, exists \in BOOLEAN :
           command = [pc |-> "start", force |-> force, exists |-> exists,
                      status |-> -1, failed |-> "none"]
    /\ conn = [m \in Metrics |-> FALSE]
    /\ disk \in (IF command.exists THEN OldTables ELSE {NoTables})
    /\ txn = disk
    /\ query = NoQuery
    /\ indexed = [m \in Metrics |-> command.exists]
    /\ IssnIdle /\ ParseIdle /\ EnrichIdle /\ IdentIdle /\ LoadIdle

\* UEFISCDI_DB_FILE.unlink()
Unlink ==
    /\ disk' = NoTables
    /\ txn' = NoTables
    /\ indexed' = NoIndex

\* download up to the first bulk load: an existing database file is removed
\* with --force and ends the command with status 1 without it
DownloadBegin ==
    /\ command.pc = "start"
    /\ IF command.exists /\ command.force
       THEN /\ Unlink
            /\ command' = [command EXCEPT !.pc = "RIS", !.exists = FALSE]
       ELSE /\ command' = IF command.exists
                          THEN [command EXCEPT !.pc = "done", !.status = 1]
                          ELSE [command EXCEPT !.pc = "RIS"]
            /\ UNCHANGED <<disk, txn, indexed>>
    /\ UNCHANGED <<conn, query, issnVars, parseVars, enrichVars, identVars, loadVars>>

\* store_*(UEFISCDI_DB_FILE, force=force) is called inside the try statement
\* of the step; sqlite3.connect creates the file
DownloadStore(years) ==
    /\ command.pc \in Metrics
    /\ query.op # "loading"
    /\ ~(query.op = "store" /\ query.m = command.pc)
    /\ StoreBegin(command.pc, years, command.force)
    /\ command' = [command EXCEPT !.exists = TRUE]
    /\ UNCHANGED <<issnVars, parseVars, enrichVars, identVars, loadVars>>

\* the try statement of a step ends: with the next step; or in the except
\* clause, which removes the file and exits with status 1; or with an
\* exception the clause does not name, which ends the interpreter with a
\* traceback and status 1
DownloadStored ==
    /\ command.pc \in Metrics
    /\ query.op = "store" /\ query.m = command.pc
    /\ IF query.out.ok
       THEN /\ command' = [command EXCEPT !.pc = NextStep(@),
                                         !.status = IF NextStep(command.pc) = "done"
                                                    THEN 0 ELSE @]
            /\ UNCHANGED <<disk, txn, indexed>>
       ELSE IF query.out.exc \in ScholarlyError
       THEN /\ Unlink
            /\ command' = [command EXCEPT !.pc = "done", !.exists = FALSE,
                                         !.status = 1, !.failed = command.pc]
       ELSE /\ command' = [command EXCEPT !.pc = "done", !.status = 1,
                                         !.failed = command.pc]
            /\ UNCHANGED <<disk, txn, indexed>>
    /\ UNCHANGED <<conn, query, issnVars, parseVars, enrichVars, identVars, loadVars>>

NextCommand ==
    \/ DownloadBegin
    \/ \E years \in YearOrders : DownloadStore(years)
    \/ \E m \in Metrics, v \in UEFISCDI_DATABASE_URL :
           \E src \in CommandSources(m, v) : command.pc = m /\ LoadYear(src)
    \/ DownloadStored

SpecCommand == InitCommand /\ [][NextCommand]_vars

\* C21: when one of the three bulk loads of the download command fails, the
\* command ends with a non-zero exit status and without a database file, the
\* rows of the earlier loads included.
C21_FailedStepRemovesDatabase ==
    (command.pc = "done" /\ command.failed \in Metrics) =>
        /\ command.status # 0
        /\ ~command.exists
        /\ disk = NoTables

\* a load that failed with an error the except clause names
C21_CaughtFailureRemovesDatabase ==
    /\ command.pc = "done" /\ command.failed = "RIF"
    /\ query.out.exc \in ScholarlyError
    /\ command.status = 1 /\ ~command.exists /\ disk = NoTables

-----------------------------------------------------------------------------
(* Point lookups after a bulk load                                          *)

\* the record that the load of year y parsed from the downloaded worksheet
\* and handed to insert
InsertedRecord(m, y) ==
    parse_scores(m, <<BulkRow(m, y, T_A, T_1234_5679, T_1)>>, y).value[1]

\* the rows of year y that carry the identifier of the last query
MatchingInYear(m, id, y) == {r \in Matching(m, id) : r.year = y}

\* the point lookup of the last query gave back the inserted record of the
\* year, or nothing when the year has no row for the identifier
RoundTrip(m) ==
    (query.op = "find" /\ query.connected /\ query.m = m) =>
        IF MatchingInYear(m, query.id, query.year) = {}
        THEN query.out = Return(NotFound)
        ELSE query.out = Return(Found(InsertedRecord(m, query.year)))

\* C22: on each of the three stores, find_by_issn(id, Y) after the insert of
\* a valid record r with that identifier for the supported year Y returns a
\* record with the journal, ISSN, eISSN and score of r (and its edition and
\* category on the AIS store), and returns None when year Y has no row for
\* the valid identifier.
C22_PointLookupRoundTrip == \A m \in Metrics : RoundTrip(m)

\* the round trip on the store whose lookup takes the year and whose
\* records have no edition
C22_RifRoundTrip == RoundTrip("RIF")

C22_RifWitness ==
    /\ query.op = "find" /\ query.connected /\ query.m = "RIF"
    /\ MatchingInYear("RIF", query.id, query.year) # {}
    /\ query.out = Return(Found(InsertedRecord("RIF", query.year)))

-----------------------------------------------------------------------------
(* The normalisation specification: normalize_issn on cell texts            *)

\* the vendor markers as the files spell them, other short texts, and the
\* identifier texts of the ISSN text specification
NormalizeCores ==
    {T_0, T_NA, T_na, T_STARS, <<>>, <<"0", "0">>, <<"N", "A">>,
     <<"*", "*", "*", "*", "*", "*", "*", "*", "*">>} \cup IssnTexts

Blanks == {<<>>, <<" ">>}

NormalizeTexts == {l \o s \o r : l \in Blanks, s \in NormalizeCores, r \in Blanks}

InitNormalize ==
    /\ input \in {<<s>> : s \in NormalizeTexts}
    /\ ident = [op |-> "none"]
    /\ IssnIdle /\ ParseIdle /\ StoreIdle /\ EnrichIdle /\ LoadIdle /\ CommandIdle

\* normalize_issn(text)
Normalize ==
    /\ ident.op = "none"
    /\ ident' = [op |-> "normalize_issn", out |-> normalize_issn(input[1])]
    /\ UNCHANGED <<input, issnVars, parseVars, storeVars, enrichVars, loadVars, command>>

NextNormalize == Normalize

SpecNormalize == InitNormalize /\ [][NextNormalize]_vars

\* the text is one of the three vendor markers
IsMarker(s) ==
    \/ s = <<"0">>
    \/ s = <<"N", "/", "A">>
    \/ s = <<"*", "*", "*", "*", "-", "*", "*", "*", "*">>

\* C23: normalize_issn returns None for the texts that are "0", "N/A" or
\* "****-****" once trimmed and upper-cased, without looking at their form;
\* for every other text it returns what ISSN.from_string makes of the
\* trimmed, upper-cased text (the two parts around the dash, whatever the
\* check character) or raises its ValueError, and never None.
C23_MarkersAreNoIdentifier ==
    ident.op = "normalize_issn" =>
        LET s == Upper(Strip(input[1]))
        IN  IF IsMarker(s) THEN ident.out = Return(None)
            ELSE IF Layout(s)
            THEN /\ ident.out = Return(<<SubSeq(s, 1, 4), SubSeq(s, 6, 9)>>)
                 /\ ident.out.value # None
            ELSE ident.out = Raise("ValueError")

\* a lower-case marker between blanks was taken for no identifier
C23_Witness ==
    /\ ident.op = "normalize_issn"
    /\ input[1] = <<" ", "n", "/", "a", " ">>
    /\ ident.out = Return(None)

-----------------------------------------------------------------------------
(* publication.ORCiD and the ORCID specification                            *)

\* str.split(sep)
RECURSIVE Split(_, _)
Split(s, sep) ==
    IF Contains(s, sep) THEN <<SplitHead(s, sep)>> \o Split(SplitRest(s, sep), sep)
    ELSE <<s>>

\* ORCiD.from_string
ORCiD_from_string(orcid) ==
    IF ~Contains(orcid, "-") THEN Raise("ValueError")
    ELSE LET split == Split(orcid, "-")
             parts == [k \in 1..Len(split) |-> Upper(Strip(split[k]))]
         IN  IF Len(parts) # 4 THEN Raise("ValueError")
             ELSE IF \E k \in 1..4 : Len(parts[k]) # 4 THEN Raise("ValueError")
             ELSE Return(parts)

\* the loop of ORCiD.is_valid over digits[:-1]
RECURSIVE ORCiD_total(_, _, _)
ORCiD_total(digits, i, total) ==
    IF i > Len(digits) - 1 THEN total
    ELSE ORCiD_total(digits, i + 1, 2 * (total + DigitVal(digits[i])))

\* ORCiD.is_valid with `base - remainder` for the check value
ORCiD_check(parts, base) ==
    IF \E k \in 1..4 : Len(parts[k]) # 4 THEN FALSE
    ELSE IF ~(/\ AllDigits(parts[1]) /\ AllDigits(parts[2]) /\ AllDigits(parts[3])
              /\ AllDigits(SubSeq(parts[4], 1, 3))) THEN FALSE
    ELSE LET check == UpperChar(parts[4][4])
         IN  IF ~(IsDigit(check) \/ check = "X") THEN FALSE
             ELSE LET total == ORCiD_total(parts[1] \o parts[2] \o parts[3] \o parts[4], 1, 0)
                      remainder == total % 11
                      result == (base - remainder) % 11
                      expected == IF result = 10 THEN "X" ELSE DigitChar(result)
                  IN  check = expected

\* a slip in the constant of the check value
ORCiD_is_valid_eleven(orcid) == ORCiD_check(orcid, 11)

\* ORCiD.is_valid
ORCiD_is_valid(orcid) == ORCiD_check(orcid, 12)

OrcidSeconds == {<<"0", "0", "0", "2">>, <<"0", "0", "0", "1">>, <<"0", "0", "0", "A">>}

OrcidThirds == {<<"1", "8", "2", "5">>, <<"1", "6", "9", "4">>, <<"0", "0", "0", "0">>, <<"5", "1", "0", "9">>}

OrcidFourths == {<<"0", "0", "9">>, <<"2", "3", "3">>, <<"0", "0", "0">>, <<"3", "7", "0">>, <<"0", "0", "A">>}

OrcidLast == Digits \cup {"X", "x", "A"}

\* texts of four groups of four characters, then texts of another form: a
\* short and a long last group, three groups, no dash, blanks around a group
OrcidTexts ==
    {<<"0", "0", "0", "0", "-">> \o b \o <<"-">> \o c \o <<"-">> \o d \o <<l>> :
        b \in OrcidSeconds, c \in OrcidThirds, d \in OrcidFourths, l \in OrcidLast}
    \cup {<<"0", "0", "0", "0", "-", "0", "0", "0", "2", "-", "1", "8", "2", "5", "-">> \o t :
            t \in {<<"0", "0", "9">>, <<"0", "0", "9", "7", "7">>, <<" ", "0", "0", "9", "7">>}}
    \cup {<<"0", "0", "0", "0", "-", "0", "0", "0", "1", "-", "0", "0", "0", "0">>,
          <<"0", "0", "0", "0", "0", "0", "0", "2", "1", "8", "2", "5", "0", "0", "9", "7">>}

InitOrcid ==
    /\ input \in {<<s>> : s \in OrcidTexts}
    /\ ident = [op |-> "none"]
    /\ IssnIdle /\ ParseIdle /\ StoreIdle /\ EnrichIdle /\ LoadIdle /\ CommandIdle

\* ORCiD.from_string(text)
OrcidFromString ==
    /\ ident.op = "none"
    /\ ident' = [op |-> "ORCiD.from_string", out |-> ORCiD_from_string(input[1])]
    /\ UNCHANGED <<input, issnVars, parseVars, storeVars, enrichVars, loadVars, command>>

\* ORCiD(parts), with the groups as they are written
OrcidConstruct ==
    /\ ident.op = "none"
    /\ Len(Split(input[1], "-")) = 4
    /\ ident' = [op |-> "ORCiD", out |-> Return(Split(input[1], "-"))]
    /\ UNCHANGED <<input, issnVars, parseVars, storeVars, enrichVars, loadVars, command>>

\* is_valid on the ORCiD made by the step before
OrcidIsValid ==
    /\ ident.op \in {"ORCiD.from_string", "ORCiD"}
    /\ ident.out.ok
    /\ ident' = [op |-> "ORCiD.is_valid", orcid |-> ident.out.value,
                 out |-> ORCiD_is_valid(ident.out.value)]
    /\ UNCHANGED <<input, issnVars, parseVars, storeVars, enrichVars, loadVars, command>>

NextOrcid == OrcidFromString \/ OrcidConstruct \/ OrcidIsValid

SpecOrcid == InitOrcid /\ [][NextOrcid]_vars

\* 2 to the power n
RECURSIVE Pow2(_)
Pow2(n) == IF n = 0 THEN 1 ELSE 2 * Pow2(n - 1)

\* the weighted sum of ISO 7064 MOD 11-2 over the first 15 characters: the
\* character at position i of 16 has weight 2^(16-i)
RECURSIVE Mod112Sum(_, _)
Mod112Sum(s, i) ==
    IF i > 15 THEN 0 ELSE DigitVal(s[i]) * Pow2(16 - i) + Mod112Sum(s, i + 1)

\* the value of a check character: 10 for X in either case, -1 for none
CheckValue112(c) ==
    IF IsDigit(c) THEN DigitVal(c) ELSE IF c \in {"X", "x"} THEN 10 ELSE -1

\* C24: for an ORCiD of four groups of four characters, is_valid is true
\* exactly when the first 15 characters are digits and the 16th, in either
\* case, is the ISO 7064 MOD 11-2 check character of those digits (the
\* weighted sum with the check value is 1 modulo 11; X stands for 10).
C24_IsValidIsMod112Checksum ==
    (/\ ident.op = "ORCiD.is_valid"
     /\ \A k \in 1..4 : Len(ident.orcid[k]) = 4) =>
        LET s == ident.orcid[1] \o ident.orcid[2] \o ident.orcid[3] \o ident.orcid[4]
        IN  ident.out =
                (/\ \A i \in 1..15 : IsDigit(s[i])
                 /\ CheckValue112(s[16]) >= 0
                 /\ (Mod112Sum(s, 1) + CheckValue112(s[16])) % 11 = 1)

\* the ORCiD 0000-0002-1694-233x, written with a small x, is valid
C24_Witness ==
    /\ ident.op = "ORCiD.is_valid"
    /\ input[1] = <<"0", "0", "0", "0", "-", "0", "0", "0", "2", "-", "1", "6", "9", "4",
                    "-", "2", "3", "3", "x">>
    /\ ident.out = TRUE

-----------------------------------------------------------------------------
(* The ISSN round trip: from_string, is_valid and str on one text           *)

\* the parts of the ISSN values of the ISSN specification, written with a
\* dash between them
RoundTexts == {v[1] \o <<"-">> \o v[2] : v \in IssnValues}

InitIssnRound ==
    /\ input \in {<<s>> : s \in RoundTexts}
    /\ ident = [op |-> "none"]
    /\ IssnIdle /\ ParseIdle /\ StoreIdle /\ EnrichIdle /\ LoadIdle /\ CommandIdle

\* str(issn) on the ISSN that from_string returned
IssnToString ==
    /\ ident.op = "ISSN.from_string"
    /\ ident.out.ok
    /\ ident' = [op |-> "str", out |-> ident.out, text |-> ISSN_str(ident.out.value)]
    /\ UNCHANGED <<input, issnVars, parseVars, storeVars, enrichVars, loadVars, command>>

NextIssnRound == FromString \/ IsValidParsed \/ IssnToString

SpecIssnRound == InitIssnRound /\ [][NextIssnRound]_vars

\* the text has the shape NNNN-NNNC and its weighted sum 8*d1 + ... + 2*d7
\* plus the check value is divisible by 11
PassesChecksum(s) ==
    /\ Shape(s)
    /\ (8 * DigitVal(s[1]) + 7 * DigitVal(s[2]) + 6 * DigitVal(s[3]) + 5 * DigitVal(s[4])
        + 4 * DigitVal(s[6]) + 3 * DigitVal(s[7]) + 2 * DigitVal(s[8])
        + CheckValue(s[9])) % 11 = 0

\* C25: for a text s of the form NNNN-NNNC that passes the checksum,
\* ISSN.from_string(s) returns an ISSN, its is_valid is true, and its str is
\* s, character for character.
C25_ValidIssnRoundTrip ==
    PassesChecksum(input[1]) =>
        /\ ident.op # "none" => ident.out.ok
        /\ valid.called => valid.result
        /\ ident.op = "str" => ident.text = input[1]

\* a valid ISSN with the check character X was parsed, validated and written
\* back
C25_Witness ==
    /\ PassesChecksum(input[1])
    /\ input[1][9] = "X"
    /\ ident.op = "str" /\ ident.text = input[1]
    /\ valid.called /\ valid.result

\* C26: add_scores on an existing store file with no kinds to add, `scores`
\* left as None or given as the empty set, returns the publications it was
\* given and raises nothing.
C26_NoKindsReturnsPublications ==
    (/\ enriched.op = "scores"
     /\ enriched.exists
     /\ (kinds.none \/ kinds.order = <<>>)) =>
        enriched.out = Return(pubs)

\* the half of C26 for `scores` left as None
C26_NoneReturnsPublications ==
    (enriched.op = "scores" /\ enriched.exists /\ kinds.none) => enriched.out = Return(pubs)

C26_NoneWitness ==
    /\ enriched.op = "scores" /\ enriched.exists /\ kinds.none
    /\ Len(pubs) = 2
    /\ enriched.out = Return(pubs)

\* the position in the candidates of the first one that carries the DOI
FirstWithDoi(doi) ==
    CHOOSE i \in 1..Len(pubs) :
        /\ pubs[i].doi # None /\ DOI_eq(pubs[i].doi, doi)
        /\ \A j \in 1..(i - 1) : pubs[j].doi = None \/ ~DOI_eq(pubs[j].doi, doi)

\* C27: add_cited_by returns one publication for every distinct DOI among
\* the candidates and nothing else, in the order in which the DOIs first
\* occur, so as many publications as candidates when every candidate has a
\* DOI and the DOIs are pairwise distinct.
C27_OnePublicationPerDoi ==
    enriched.op = "cited_by" =>
        LET out == enriched.out
        IN  /\ \A k \in 1..Len(out) :
                   /\ out[k].doi # None
                   /\ \E i \in 1..Len(pubs) : pubs[i].doi # None /\ DOI_eq(pubs[i].doi, out[k].doi)
            /\ \A i \in 1..Len(pubs) :
                   pubs[i].doi # None =>
                       \E k \in 1..Len(out) :
                           /\ DOI_eq(out[k].doi, pubs[i].doi)
                           /\ \A l \in 1..Len(out) : DOI_eq(out[l].doi, pubs[i].doi) => l = k
            /\ \A k, l \in 1..Len(out) :
                   k < l => FirstWithDoi(out[k].doi) < FirstWithDoi(out[l].doi)
            /\ (/\ \A i \in 1..Len(pubs) : pubs[i].doi # None
                /\ \A i, j \in 1..Len(pubs) : i # j => ~DOI_eq(pubs[i].doi, pubs[j].doi))
                   => Len(out) = Len(pubs)

\* two candidates with DOIs of their own came back as two publications in
\* the order given, one of them cited
C27_Witness ==
    /\ enriched.op = "cited_by"
    /\ Len(pubs) = 2 /\ Len(enriched.out) = 2
    /\ pubs[1].doi = D_c /\ pubs[2].doi = D_ab
    /\ enriched.out[1].doi = D_c /\ enriched.out[2].doi = D_ab
    /\ enriched.out[2].cited_by # <<>>

\* C28: over any sequence of download_file calls on one destination, a call
\* that ends in an error (no connection, an HTTP error status, a transfer
\* that times out or breaks) leaves no file at the destination, and a file
\* appears there only by a call that completed without error; so the next
\* call without force never skips the download over a partial or empty file.
C28_NoFileAfterFailedDownload ==
    /\ []((fetched.op = "download" /\ ~fetched.out.ok) => ~cache.exists)
    /\ [][(~cache.exists /\ cache'.exists) => fetched'.out.ok]_vars
    /\ [][(fetched.op = "download" /\ ~fetched.out.ok /\ ~fetched'.force)
              => ~fetched'.existed]_vars

-----------------------------------------------------------------------------
(* wos.parse_wos_authors and the author specification                       *)

\* str.replace(a, b) for single characters
Replace(s, a, b) == [i \in 1..Len(s) |-> IF s[i] = a THEN b ELSE s[i]]

\* ResearcherID.from_string
ResearcherID_from_string(rid) ==
    IF ~Contains(rid, "-") THEN Raise("ValueError")
    ELSE LET split == Split(Upper(rid), "-")
             parts == [k \in 1..Len(split) |-> Upper(Strip(split[k]))]
         IN  IF Len(parts) # 3 THEN Raise("ValueError")
             ELSE IF ~(Len(parts[1]) >= 1 /\ Len(parts[2]) = 4 /\ Len(parts[3]) = 4)
             THEN Raise("ValueError")
             ELSE Return(parts)

\* an empty dict
EmptyDict == <<>>

\* dict.get(key)
Get(d, key) == IF key \in DOMAIN d THEN d[key] ELSE None

\* first_name[0], a text of one character
Initial(first_name) == SubSeq(first_name, 1, 1)

\* the body of the loop of parse_rids / parse_orcids for one value, with the
\* from_string of the identifier kind applied: the right-hand side of the
\* assignment is evaluated before the key
parse_id(result, value, id) ==
    LET name == Split(Split(value, "/")[1], ",")
        first_name == Strip(name[2])
    IN  IF Len(name) # 2 THEN Raise("ValueError")
        ELSE IF ~id.ok THEN id
        ELSE IF first_name = <<>> THEN Raise("IndexError")
        ELSE Return((<<Strip(name[1]), Initial(first_name)>> :> id.value) @@ result)

RECURSIVE parse_rids_loop(_, _, _)
parse_rids_loop(values, i, result) ==
    IF i > Len(values) THEN Return(result)
    ELSE IF ~Contains(values[i], "/") THEN parse_rids_loop(values, i + 1, result)
    ELSE IF Len(Split(values[i], "/")) # 2 THEN Raise("ValueError")
    ELSE LET r == parse_id(result, values[i],
                           ResearcherID_from_string(Split(values[i], "/")[2]))
         IN  IF ~r.ok THEN r ELSE parse_rids_loop(values, i + 1, r.value)

\* parse_rids(text, sep=sep)
parse_rids(text, sep) == parse_rids_loop(Split(text, sep), 1, EmptyDict)

RECURSIVE parse_orcids_loop(_, _, _)
parse_orcids_loop(values, i, result) ==
    IF i > Len(values) THEN Return(result)
    ELSE IF ~Contains(values[i], "/") THEN parse_orcids_loop(values, i + 1, result)
    ELSE IF Len(Split(values[i], "/")) # 2 THEN Raise("ValueError")
    ELSE LET r == parse_id(result, values[i], ORCiD_from_string(Split(values[i], "/")[2]))
         IN  IF ~r.ok THEN r ELSE parse_orcids_loop(values, i + 1, r.value)

\* parse_orcids(text, sep=sep)
parse_orcids(text, sep) == parse_orcids_loop(Split(text, sep), 1, EmptyDict)

\* Author(first_name, last_name, affiliations=(), researcherid, orcid)
Author(first_name, last_name, researcherid, orcid) ==
    [first_name |-> first_name, last_name |-> last_name, affiliations |-> <<>>,
     researcherid |-> researcherid, orcid |-> orcid]

\* the body of the loop of parse_wos_authors for one author
parse_wos_author(author, researcherids, orcids) ==
    LET name == Split(author, ",")
        first_name == Strip(name[2])
        last_name == Strip(name[1])
    IN  IF Len(name) # 2 THEN Raise("ValueError")
        ELSE IF first_name = <<>> THEN Raise("IndexError")
        ELSE Return(Author(first_name, last_name,
                           Get(researcherids, <<last_name, Initial(first_name)>>),
                           Get(orcids, <<last_name, first_name>>)))

RECURSIVE parse_wos_authors_loop(_, _, _, _, _)
parse_wos_authors_loop(authors, i, researcherids, orcids, result) ==
    IF i > Len(authors) THEN Return(result)
    ELSE LET r == parse_wos_author(authors[i], researcherids, orcids)
         IN  IF ~r.ok THEN r
             ELSE parse_wos_authors_loop(authors, i + 1, researcherids, orcids,
                                         Append(result, r.value))

\* the loop of parse_wos_authors once both dictionaries are built
parse_wos_authors_with(text, author_separator, researcherids, orcids) ==
    IF ~researcherids.ok THEN researcherids
    ELSE IF ~orcids.ok THEN orcids
    ELSE parse_wos_authors_loop(Split(Replace(text, "\n", " "), author_separator), 1,
                                researcherids.value, orcids.value, <<>>)

\* parse_wos_authors(text, researcherid=researcherid, orcid=orcid) with the
\* default separators; an absent or empty field gives an empty dictionary
parse_wos_authors(text, researcherid, orcid) ==
    parse_wos_authors_with(text, ";",
        IF researcherid # <<>> THEN parse_rids(researcherid, ";") ELSE Return(EmptyDict),
        IF orcid # <<>> THEN parse_orcids(orcid, ";") ELSE Return(EmptyDict))

\* AF fields: one and two authors, with full first names and initials, and
\* a name without a comma
AuthorFields ==
    {<<"F", "i", "k", "l", ",", " ", "A", "l", "e", "x", "a", "n", "d", "r", "u">>,
     <<"F", "i", "k", "l", ",", " ", "A", "l", "e", "x", "a", "n", "d", "r", "u", ";", " ", "D", "o", "e", ",", " ", "J">>,
     <<"D", "o", "e", ",", " ", "J">>,
     <<"D", "o", "e", ",", " ", "J", "a", "n", "e", ";", " ", "F", "i", "k", "l", ",", " ", "A">>,
     <<"D", "o", "e">>}

\* RI fields: absent, one and two entries, an entry that is no ResearcherID
ResearcherIdFields ==
    {<<>>,
     <<"F", "i", "k", "l", ",", " ", "A", "l", "e", "x", "a", "n", "d", "r", "u", "/", "A", "-", "1", "2", "3", "4", "-", "2", "0", "1", "0">>,
     <<"D", "o", "e", ",", " ", "J", "a", "n", "e", "/", "B", "-", "5", "6", "7", "8", "-", "2", "0", "1", "2", ";", " ", "F", "i", "k", "l", ",", " ", "A", "/", "A", "-", "1", "2", "3", "4", "-", "2", "0", "1", "0">>,
     <<"D", "o", "e", ",", " ", "J", "/", "b", "a", "d">>}

\* OI fields: absent, entries under full first names and under initials
OrcidFields ==
    {<<>>,
     <<"F", "i", "k", "l", ",", " ", "A", "l", "e", "x", "a", "n", "d", "r", "u", "/", "0", "0", "0", "0", "-", "0", "0", "0", "2", "-", "1", "8", "2", "5", "-", "0", "0", "9", "7">>,
     <<"D", "o", "e", ",", " ", "J", "/", "0", "0", "0", "0", "-", "0", "0", "0", "2", "-", "1", "6", "9", "4", "-", "2", "3", "3", "X", ";", " ", "F", "i", "k", "l", ",", " ", "A", "/", "0", "0", "0", "0", "-", "0", "0", "0", "2", "-", "1", "8", "2", "5", "-", "0", "0", "9", "7">>,
     <<"D", "o", "e", ",", " ", "J", "a", "n", "e", "/", "0", "0", "0", "0", "-", "0", "0", "0", "1", "-", "5", "1", "0", "9", "-", "3", "7", "0", "0">>}

InitAuthors ==
    /\ input \in {<<af, ri, oi>> : af \in AuthorFields, ri \in ResearcherIdFields,
                                   oi \in OrcidFields}
    /\ ident = [op |-> "none"]
    /\ IssnIdle /\ ParseIdle /\ StoreIdle /\ EnrichIdle /\ LoadIdle /\ CommandIdle

\* parse_wos_authors(row["AF"], researcherid=row["RI"], orcid=row["OI"])
ParseAuthors ==
    /\ ident.op = "none"
    /\ ident' = [op |-> "parse_wos_authors",
                 out |-> parse_wos_authors(input[1], input[2], input[3])]
    /\ UNCHANGED <<input, issnVars, parseVars, storeVars, enrichVars, loadVars, command>>

NextAuthors == ParseAuthors

SpecAuthors == InitAuthors /\ [][NextAuthors]_vars

\* the identifier that a field holds for an author's last name and first
\* initial, None without one
IdOf(entries, author) ==
    Get(entries.value, <<author.last_name, Initial(author.first_name)>>)

\* C29: parse_wos_authors gives an author the ORCID of the OI entry with
\* the author's last name and first initial, just as it gives the author the
\* ResearcherID of the RI entry with that last name and initial, whatever the
\* length of the first name.
C29_IdentifiersBySameKey ==
    (ident.op = "parse_wos_authors" /\ ident.out.ok) =>
        \A k \in 1..Len(ident.out.value) :
            /\ ident.out.value[k].researcherid =
                   IdOf(IF input[2] # <<>> THEN parse_rids(input[2], ";")
                        ELSE Return(EmptyDict), ident.out.value[k])
            /\ ident.out.value[k].orcid =
                   IdOf(IF input[3] # <<>> THEN parse_orcids(input[3], ";")
                        ELSE Return(EmptyDict), ident.out.value[k])

\* the ResearcherID half of C29
C29_ResearcherIdByInitial ==
    (ident.op = "parse_wos_authors" /\ ident.out.ok) =>
        \A k \in 1..Len(ident.out.value) :
            ident.out.value[k].researcherid =
                IdOf(IF input[2] # <<>> THEN parse_rids(input[2], ";")
                     ELSE Return(EmptyDict), ident.out.value[k])

\* an author with a full first name received the ResearcherID of the entry
\* that has the same last name and initial
C29_ResearcherIdWitness ==
    /\ ident.op = "parse_wos_authors" /\ ident.out.ok
    /\ \E k \in 1..Len(ident.out.value) :
           /\ Len(ident.out.value[k].first_name) > 1
           /\ ident.out.value[k].researcherid # None

\* the kinds asked for in the scoring call
Requested == {kinds.order[j] : j \in 1..Len(kinds.order)}

\* C30: when add_scores is given a non-empty set of kinds and returns, it
\* returns as many publications as it was given, in the same order, each
\* equal to its input but for the journal's score map, which keeps every
\* entry it had, unchanged, and can only have gained entries of requested
\* kinds.
C30_OnlyScoresOfRequestedKindsAdded ==
    (/\ enriched.op = "scores" /\ enriched.out.ok
     /\ ~kinds.none /\ kinds.order # <<>>) =>
        /\ Len(enriched.out.value) = Len(pubs)
        /\ \A i \in 1..Len(pubs) :
               LET new == enriched.out.value[i]
               IN  /\ [new EXCEPT !.scores = pubs[i].scores] = pubs[i]
                   /\ pubs[i].scores \subseteq new.scores
                   /\ \A p \in new.scores \ pubs[i].scores :
                          /\ p[1] \in Requested
                          /\ \A q \in pubs[i].scores : q[1] # p[1]
                   /\ \A p, q \in new.scores : p[1] = q[1] => p = q

\* of two publications, one that carried a score of another kind gained an
\* entry of the requested kind and the other came back as it was
C30_Witness ==
    /\ enriched.op = "scores" /\ enriched.out.ok
    /\ ~kinds.none /\ kinds.order # <<>>
    /\ Len(pubs) = 2
    /\ \E i \in 1..2 :
           /\ pubs[i].scores # {}
           /\ enriched.out.value[i].scores # pubs[i].scores
           /\ enriched.out.value[3 - i] = pubs[3 - i]

====
